---------------------------- MODULE Spec2Model ----------------------------
(***************************************************************************)
(* A model of adbr, the typed builder library around the adb command line. *)
(*                                                                         *)
(*   Spec        the AdbCommandBuilder and its set of global options       *)
(*               (src/command/mod.rs, src/global_option.rs)                *)
(*   SpecSocket  Display and FromStr of the socket families                *)
(*               (src/socket.rs)                                           *)
(*   SpecOption  Display and FromStr of AdbGlobalOption                    *)
(*               (src/global_option.rs)                                    *)
(*   SpecResolve Tcp::from_host and AdbGlobalOption::from_host against a   *)
(*               name resolver, beside the parsers that do not resolve     *)
(*               (src/socket.rs, src/global_option.rs)                     *)
(*                                                                         *)
(* Text is a TLA+ string, read character by character with SubSeq.        *)
(* Option<T> is a sequence of length at most one: None is << >> and        *)
(* Some(x) is <<x>>.  A u32 is kept as two 16-bit limbs <<hi, lo>> (value  *)
(* hi * 65536 + lo), because a u32 does not fit the integers of the model  *)
(* checker; the same pair with a larger hi stands for a wider integer.     *)
(***************************************************************************)
EXTENDS Integers, Sequences, FiniteSets, TLC

VARIABLES
    global_options,  \* AdbCommandBuilder::global_options, a HashSet<AdbGlobalOption>
    calls,           \* the setter calls chained on the builder so far, oldest first
    sock_pc,         \* socket grammar: "value" (a value to format), "text", "parsed"
    sock_value,      \* the endpoint value handed to Display, if any
    sock_origin,     \* how the caller wrote the text, when it is not Display's output
    sock_text,       \* the text: Display's output, and FromStr's input
    sock_result,     \* the parser applied last and what it returned
    opt_pc,          \* global option grammar: "value", "text", "parsed"
    opt_value,       \* the AdbGlobalOption handed to Display, if any
    opt_origin,      \* how the caller wrote the text, when it is not Display's output
    opt_text,        \* the text: Display's output, and FromStr's input
    opt_result,      \* what AdbGlobalOption::from_str returned
    resolver,        \* the platform's name resolver: host name -> addresses or failure
    lookups,         \* the host names handed to the resolver so far, oldest first
    adb,             \* the Adb instance: working_directory and envs
    command,         \* the builder of one subcommand: its AdbCommandBuilder and fields
    chain,           \* the calls made on the subcommand's builder so far, oldest first
    cmd              \* the std::process::Command that build returned, if any

builderVars == <<global_options, calls>>
socketVars == <<sock_pc, sock_value, sock_origin, sock_text, sock_result>>
optionVars == <<opt_pc, opt_value, opt_origin, opt_text, opt_result>>
resolverVars == <<resolver, lookups>>
commandVars == <<adb, command, chain, cmd>>
vars == <<global_options, calls, sock_pc, sock_value, sock_origin, sock_text,
          sock_result, opt_pc, opt_value, opt_origin, opt_text, opt_result, resolver,
          lookups, adb, command, chain, cmd>>

(***************************************************************************)
(* Bounds of the model.                                                    *)
(***************************************************************************)
\* Setter calls chained on one builder.
MaxCalls == 3
\* Length of the free-form remainder written after a family tag.
MaxRemLen == 2
\* Leading zeros written in front of a numeric field.
MaxPad == 1
\* Length of the free-form value written after a global option flag.
MaxValLen == 2

None == << >>
Some(x) == <<x>>
Unwrap(o) == o[1]

\* The element of a one-element set.  Only({F(x) : x \in {e}}) is F(e) with
\* e evaluated once, however often F uses it: the way a definition names
\* an intermediate result.
Only(S) == CHOOSE x \in S : TRUE

(***************************************************************************)
(* Text: the operations of str that the parsers use.                       *)
(***************************************************************************)
At(s, i) == SubSeq(s, i, i)
From(s, i) == SubSeq(s, i, Len(s))

\* str::strip_prefix / str::strip_suffix
strip_prefix(s, p) ==
    IF Len(s) >= Len(p) /\ SubSeq(s, 1, Len(p)) = p
    THEN Some(From(s, Len(p) + 1)) ELSE None
strip_suffix(s, p) ==
    IF Len(s) >= Len(p) /\ From(s, Len(s) - Len(p) + 1) = p
    THEN Some(SubSeq(s, 1, Len(s) - Len(p))) ELSE None

\* char::is_whitespace, on the characters the model writes
Whitespace == {" ", "\t", "\n", "\r"}
is_whitespace(c) == c \in Whitespace
\* The pattern ':'
Colon == {":"}

\* A split that gives the whole text and an empty rest when no character
\* matches
split_or_empty(s, pattern) ==
    LET found == {i \in 1..Len(s) : At(s, i) \in pattern}
    IN  IF found = {} THEN Some(<<s, "">>)
        ELSE Only({Some(<<SubSeq(s, 1, i - 1), From(s, i + 1)>>) :
                   i \in {CHOOSE k \in found : \A j \in found : k <= j}})

\* str::split_once: the text before and after the first character that
\* matches the pattern (here: the set of the characters that match), or None
\* when no character does
split_once(s, pattern) ==
    LET found == {i \in 1..Len(s) : At(s, i) \in pattern}
    IN  IF found = {} THEN None
        ELSE Only({Some(<<SubSeq(s, 1, i - 1), From(s, i + 1)>>) :
                   i \in {CHOOSE k \in found : \A j \in found : k <= j}})

\* A trim that removes nothing
untrimmed(s) == s

\* str::trim: the text from its first to its last character that is not
\* whitespace
trim(s) ==
    LET kept == {i \in 1..Len(s) : ~is_whitespace(At(s, i))}
    IN  IF kept = {} THEN ""
        ELSE SubSeq(s, CHOOSE i \in kept : \A j \in kept : i <= j,
                       CHOOSE i \in kept : \A j \in kept : j <= i)

(***************************************************************************)
(* Integers: FromStr and Display of the unsigned integer types.            *)
(***************************************************************************)
U8Max == 255
U16Max == 65535
LimbBase == U16Max + 1

HexDigits == "0123456789abcdef"
UpperHexDigits == "0123456789ABCDEF"
\* char::to_digit(radix), as a predicate and a value
is_digit(c, radix) ==
    \E i \in 1..radix : At(HexDigits, i) = c \/ At(UpperHexDigits, i) = c
DigitVal(c) ==
    (CHOOSE i \in 1..16 : At(HexDigits, i) = c \/ At(UpperHexDigits, i) = c) - 1
DigitChar(d) == At(HexDigits, d + 1)

\* A digit loop that wraps around on overflow where the checked one fails
RECURSIVE accumulate_wrapping(_, _, _, _)
accumulate_wrapping(digits, i, acc, maxHi) ==
    IF i > Len(digits) THEN Some(acc)
    ELSE IF ~is_digit(At(digits, i), 10) THEN None
    ELSE LET lo10 == acc[2] * 10 + DigitVal(At(digits, i))
             hi10 == acc[1] * 10 + lo10 \div LimbBase
         IN  Only({accumulate_wrapping(digits, i + 1, next, maxHi) :
                       next \in {<<hi10 % (maxHi + 1), lo10 % LimbBase>>}})

\* The digit loop of <uN as FromStr>::from_str: every character must be a
\* decimal digit, and checked_mul / checked_add fail on overflow (here: the
\* high limb exceeds maxHi).
RECURSIVE accumulate_digits(_, _, _, _)
accumulate_digits(digits, i, acc, maxHi) ==
    IF i > Len(digits) THEN Some(acc)
    ELSE IF ~is_digit(At(digits, i), 10) THEN None
    ELSE LET lo10 == acc[2] * 10 + DigitVal(At(digits, i))
             hi10 == acc[1] * 10 + lo10 \div LimbBase
         IN  IF hi10 > maxHi THEN None
             ELSE Only({accumulate_digits(digits, i + 1, next, maxHi) :
                            next \in {<<hi10, lo10 % LimbBase>>}})

\* <uN as FromStr>::from_str: empty, "+" and "-" are errors, one leading
\* "+" is skipped ("-" is not, for an unsigned type), the rest are digits
unsigned_from_str(s, maxHi) ==
    IF s = "" \/ s = "+" \/ s = "-" THEN None
    ELSE accumulate_digits(IF At(s, 1) = "+" THEN From(s, 2) ELSE s, 1, <<0, 0>>, maxHi)

\* A u32 parser that reads the empty text as 0
u32_or_zero(s) == IF s = "" THEN Some(<<0, 0>>) ELSE unsigned_from_str(s, U16Max)
u32_from_str(s) == unsigned_from_str(s, U16Max)
\* A u16 parser that keeps the low 16 bits of a number too large
u16_wrapping(s) ==
    IF s = "" \/ s = "+" \/ s = "-" THEN None
    ELSE LET r == accumulate_wrapping(IF At(s, 1) = "+" THEN From(s, 2) ELSE s,
                                      1, <<0, 0>>, 0)
         IN  IF r = None THEN None ELSE Some(Unwrap(r)[2])
u16_from_str(s) ==
    LET r == unsigned_from_str(s, 0) IN IF r = None THEN None ELSE Some(Unwrap(r)[2])

\* Display of an unsigned integer held in limbs: decimal, no sign, no padding
RECURSIVE limbs_display(_)
limbs_display(n) ==
    LET t == (n[1] % 10) * LimbBase + n[2]
        q == <<n[1] \div 10, t \div 10>>
    IN  IF q = <<0, 0>> THEN DigitChar(t % 10)
        ELSE Only({limbs_display(rest) : rest \in {q}}) \o DigitChar(t % 10)
u32_display(n) == limbs_display(n)
u16_display(n) == limbs_display(<<0, n>>)
u8_display(n) == limbs_display(<<0, n>>)

\* A segment written in decimal where LowerHex writes it in hexadecimal
u16_decimal(n) == u16_display(n)

\* LowerHex of a u16 ("{:x}")
RECURSIVE u16_lower_hex(_)
u16_lower_hex(n) ==
    IF n < 16 THEN DigitChar(n) ELSE u16_lower_hex(n \div 16) \o DigitChar(n % 16)

(***************************************************************************)
(* IP addresses: FromStr and Display of Ipv4Addr, Ipv6Addr, IpAddr and     *)
(* SocketAddr.  A parser step takes the text and a position and returns    *)
(* None or Some([val, pos]), pos being the first character not yet read.   *)
(* An Ipv4Addr is its four octets, an Ipv6Addr its eight segments; an      *)
(* IpAddr is [v |-> 4 or 6, a |-> the octets or segments].                 *)
(***************************************************************************)
Parsed(val, pos) == Some([val |-> val, pos |-> pos])
IpV4(octets) == [v |-> 4, a |-> octets]
IpV6(segments) == [v |-> 6, a |-> segments]

\* Parser::read_given_char: the position after c, or 0 when c is not next
read_given_char(s, pos, c) == IF pos <= Len(s) /\ At(s, pos) = c THEN pos + 1 ELSE 0

\* The digit loop of Parser::read_number: digits are read while there are
\* any; an overflow of the target type or more than maxDigits digits
\* (0: no limit) fails the whole number.
RECURSIVE read_digits(_, _, _, _, _, _, _)
read_digits(s, pos, radix, maxDigits, acc, count, maxVal) ==
    IF pos <= Len(s) /\ is_digit(At(s, pos), radix)
    THEN LET next == acc * radix + DigitVal(At(s, pos))
         IN  IF next > maxVal \/ (maxDigits > 0 /\ count + 1 > maxDigits) THEN None
             ELSE Only({read_digits(s, pos + 1, radix, maxDigits, a, count + 1, maxVal) :
                            a \in {next}})
    ELSE Some([val |-> acc, pos |-> pos, count |-> count])

\* Parser::read_number
read_number(s, pos, radix, maxDigits, allowZeroPrefix, maxVal) ==
    Only({IF r = None THEN None
          ELSE IF Unwrap(r).count = 0 THEN None
          ELSE IF ~allowZeroPrefix /\ At(s, pos) = "0" /\ Unwrap(r).count > 1 THEN None
          ELSE Parsed(Unwrap(r).val, Unwrap(r).pos) :
          r \in {read_digits(s, pos, radix, maxDigits, 0, 0, maxVal)}})

\* Parser::read_ipv4_addr: four decimal octets of at most three digits and
\* no zero prefix, separated by "."
RECURSIVE read_ipv4_octets(_, _, _)
read_ipv4_octets(s, pos, octets) ==
    IF Len(octets) = 4 THEN Parsed(octets, pos)
    ELSE LET start == IF Len(octets) = 0 THEN pos ELSE read_given_char(s, pos, ".")
             n == IF start = 0 THEN None ELSE read_number(s, start, 10, 3, FALSE, U8Max)
         IN  Only({IF r = None THEN None
                   ELSE read_ipv4_octets(s, Unwrap(r).pos, Append(octets, Unwrap(r).val)) :
                   r \in {n}})
read_ipv4_addr(s, pos) == read_ipv4_octets(s, pos, << >>)

\* read_groups of Parser::read_ipv6_addr: up to limit segments separated by
\* ":", the last two of which may be written as an embedded IPv4 address
RECURSIVE read_groups(_, _, _, _)
read_groups(s, pos, limit, groups) ==
    LET i == Len(groups)
        start == IF i = 0 THEN pos ELSE read_given_char(s, pos, ":")
    IN  IF i >= limit THEN [groups |-> groups, pos |-> pos, ipv4 |-> FALSE]
        ELSE Only({
            IF ipv4 # None
            THEN LET o == Unwrap(ipv4).val
                 IN  [groups |-> groups \o <<o[1] * 256 + o[2], o[3] * 256 + o[4]>>,
                      pos |-> Unwrap(ipv4).pos, ipv4 |-> TRUE]
            ELSE IF group = None THEN [groups |-> groups, pos |-> pos, ipv4 |-> FALSE]
            ELSE read_groups(s, Unwrap(group).pos, limit,
                             Append(groups, Unwrap(group).val)) :
            ipv4 \in {IF i < limit - 1 /\ start # 0
                      THEN read_ipv4_addr(s, start) ELSE None},
            group \in {IF start = 0 THEN None
                       ELSE read_number(s, start, 16, 4, TRUE, U16Max)}})

\* Parser::read_ipv6_addr: eight segments, or a head and a tail around "::"
\* The back part of Parser::read_ipv6_addr: "::", then the tail, the zero
\* segments that "::" stands for filling the address up to eight
read_ipv6_tail(s, head) ==
    LET colon1 == read_given_char(s, head.pos, ":")
        colon2 == IF colon1 = 0 THEN 0 ELSE read_given_char(s, colon1, ":")
    IN  IF colon2 = 0 THEN None
        ELSE Only({Parsed(head.groups
                          \o [k \in 1..(8 - Len(head.groups) - Len(tail.groups)) |-> 0]
                          \o tail.groups, tail.pos) :
                   tail \in {read_groups(s, colon2, 8 - (Len(head.groups) + 1), << >>)}})
read_ipv6_addr(s, pos) ==
    Only({IF Len(head.groups) = 8 THEN Parsed(head.groups, head.pos)
          ELSE IF head.ipv4 THEN None
          ELSE read_ipv6_tail(s, head) :
          head \in {read_groups(s, pos, 8, << >>)}})

\* Parser::parse_with: the whole text must have been read
parse_with(s, r) ==
    IF r # None /\ Unwrap(r).pos = Len(s) + 1 THEN Some(Unwrap(r).val) ELSE None

\* <Ipv4Addr as FromStr>::from_str (a text longer than 15 is refused unread)
Ipv4Addr_from_str(s) ==
    IF Len(s) > 15 THEN None ELSE parse_with(s, read_ipv4_addr(s, 1))
\* <Ipv6Addr as FromStr>::from_str
Ipv6Addr_from_str(s) == parse_with(s, read_ipv6_addr(s, 1))

\* <IpAddr as FromStr>::from_str: an IPv4 address, else an IPv6 address
IpAddr_from_str(s) ==
    Only({IF v4 # None THEN parse_with(s, Parsed(IpV4(Unwrap(v4).val), Unwrap(v4).pos))
          ELSE IF v6 # None THEN parse_with(s, Parsed(IpV6(Unwrap(v6).val), Unwrap(v6).pos))
          ELSE None :
          v4 \in {read_ipv4_addr(s, 1)}, v6 \in {read_ipv6_addr(s, 1)}})

\* A port read without the bound of a u16
read_port_wide(s, pos) ==
    LET colon == read_given_char(s, pos, ":")
    IN  IF colon = 0 THEN None ELSE read_number(s, colon, 10, 0, TRUE, 10 * LimbBase)

\* Parser::read_port: ":" and a decimal u16 (zero prefix allowed, no sign)
read_port(s, pos) ==
    LET colon == read_given_char(s, pos, ":")
    IN  IF colon = 0 THEN None ELSE read_number(s, colon, 10, 0, TRUE, U16Max)

\* <SocketAddr as FromStr>::from_str: v4:port, else [v6]:port.  (A zone
\* "%id" inside the brackets is not modelled: the model writes no "%".)
\* An address already read, then its port: [ip, port] and the position
with_port(s, v, r) ==
    IF r = None THEN None
    ELSE Only({IF p = None THEN None
               ELSE Parsed([ip |-> [v |-> v, a |-> Unwrap(r).val], port |-> Unwrap(p).val],
                           Unwrap(p).pos) :
               p \in {read_port(s, Unwrap(r).pos)}})
\* [v6]: the address between the brackets and the position after "]"
read_bracketed(s) ==
    LET open == read_given_char(s, 1, "[")
    IN  IF open = 0 THEN None
        ELSE Only({IF v6 = None \/ read_given_char(s, Unwrap(v6).pos, "]") = 0 THEN None
                   ELSE Parsed(Unwrap(v6).val, read_given_char(s, Unwrap(v6).pos, "]")) :
                   v6 \in {read_ipv6_addr(s, open)}})
SocketAddr_from_str(s) ==
    Only({IF v4 # None THEN parse_with(s, v4) ELSE parse_with(s, v6) :
          v4 \in {with_port(s, 4, read_ipv4_addr(s, 1))},
          v6 \in {with_port(s, 6, read_bracketed(s))}})

\* <Ipv4Addr as Display>::fmt
Ipv4Addr_display(o) ==
    u8_display(o[1]) \o "." \o u8_display(o[2]) \o "." \o u8_display(o[3])
        \o "." \o u8_display(o[4])

\* fmt_subslice of <Ipv6Addr as Display>::fmt: segments in hex joined by ":"
RECURSIVE fmt_subslice(_)
fmt_subslice(segments) ==
    IF Len(segments) = 0 THEN ""
    ELSE IF Len(segments) = 1 THEN u16_lower_hex(segments[1])
    ELSE u16_lower_hex(segments[1]) \o ":" \o fmt_subslice(Tail(segments))

\* The longest run of zero segments, the first one among equals:
\* [start, len], start counted from 0
RECURSIVE longest_zero_run(_, _, _, _)
longest_zero_run(segments, i, current, longest) ==
    IF i > Len(segments) THEN longest
    ELSE IF segments[i] = 0
    THEN LET cur == [start |-> IF current.len = 0 THEN i - 1 ELSE current.start,
                     len |-> current.len + 1]
         IN  Only({longest_zero_run(segments, i + 1, c,
                                    IF c.len > longest.len THEN c ELSE longest) :
                       c \in {cur}})
    ELSE longest_zero_run(segments, i + 1, [start |-> 0, len |-> 0], longest)

\* <Ipv6Addr as Display>::fmt: an IPv4-mapped address as ::ffff:a.b.c.d,
\* otherwise the longest run of two or more zero segments written "::"
Ipv6Addr_display(g) ==
    LET zeroes == longest_zero_run(g, 1, [start |-> 0, len |-> 0], [start |-> 0, len |-> 0])
    IN  IF SubSeq(g, 1, 5) = <<0, 0, 0, 0, 0>> /\ g[6] = U16Max
        THEN "::ffff:" \o Ipv4Addr_display(<<g[7] \div 256, g[7] % 256,
                                             g[8] \div 256, g[8] % 256>>)
        ELSE IF zeroes.len > 1
        THEN fmt_subslice(SubSeq(g, 1, zeroes.start)) \o "::"
                 \o fmt_subslice(SubSeq(g, zeroes.start + zeroes.len + 1, 8))
        ELSE fmt_subslice(g)

\* <IpAddr as Display>::fmt
IpAddr_display(ip) == IF ip.v = 4 THEN Ipv4Addr_display(ip.a) ELSE Ipv6Addr_display(ip.a)

(***************************************************************************)
(* error.rs: ParseError, and Result<T, AdbError> as [val, err], exactly    *)
(* one of which is Some.  The descriptions are the source's, without the   *)
(* back-quotes around the syntax they quote.                               *)
(***************************************************************************)
with_description(value, target, description) ==
    [value |-> value, target |-> target, description |-> description, source |-> FALSE]
with_source(value, target) ==
    [value |-> value, target |-> target, description |-> "", source |-> TRUE]
Ok(v) == [val |-> Some(v), err |-> None]
Err(e) == [val |-> None, err |-> Some(e)]
is_ok(r) == r.val # None
is_err(r) == r.val = None

(***************************************************************************)
(* socket.rs: the socket families.                                         *)
(***************************************************************************)
Families == {"Tcp", "LocalAbstract", "LocalReserved", "LocalFileSystem", "Dev",
             "DevRaw", "Jdwp", "Vsock", "AcceptFd"}
\* The families whose FromStr and Display the macros from_str! and display! write
MacroFamilies == Families \ {"Tcp", "Vsock"}
StringFamilies == {"LocalAbstract", "LocalReserved", "LocalFileSystem", "Dev", "DevRaw"}

\* $key of from_str!, and the tag of the display! format string
Key(ty) ==
    CASE ty = "LocalAbstract" -> "localabstract"
      [] ty = "LocalReserved" -> "localreserved"
      [] ty = "LocalFileSystem" -> "localfilesystem"
      [] ty = "Dev" -> "dev"
      [] ty = "DevRaw" -> "dev-raw"
      [] ty = "Jdwp" -> "jdwp"
      [] ty = "AcceptFd" -> "acceptfd"
\* The first three characters of a family's tag
TagPrefix(ty) ==
    CASE ty = "Tcp" -> "tcp"
      [] ty = "Vsock" -> "vso"
      [] OTHER -> SubSeq(Key(ty), 1, 3)
\* $value of from_str!
ValueName(ty) ==
    CASE ty \in {"LocalAbstract", "LocalReserved", "LocalFileSystem"} ->
             "unix domain socket name (string)"
      [] ty \in {"Dev", "DevRaw"} -> "character device name (string)"
      [] ty = "Jdwp" -> "process pid (u32)"
      [] ty = "AcceptFd" -> "fd (u32)"

\* A constructor that drops its port
Tcp_without_fields(port) == [ip |-> None, port |-> None]

\* Tcp::new, Tcp::with_ip, Tcp::with_port
Tcp_new(host, port) == [ip |-> Some(host), port |-> Some(port)]
Tcp_with_ip(host) == [ip |-> Some(host), port |-> None]
Tcp_with_port(port) == [ip |-> None, port |-> Some(port)]

\* <Tcp as Display>::fmt
Tcp_display(tcp) ==
    CASE tcp.ip # None /\ tcp.port # None ->
             IF Unwrap(tcp.ip).v = 4
             THEN "tcp:" \o Ipv4Addr_display(Unwrap(tcp.ip).a) \o ":"
                      \o u16_display(Unwrap(tcp.port))
             ELSE "tcp:[" \o Ipv6Addr_display(Unwrap(tcp.ip).a) \o "]:"
                      \o u16_display(Unwrap(tcp.port))
      [] tcp.ip # None /\ tcp.port = None ->
             IF Unwrap(tcp.ip).v = 4
             THEN "tcp:" \o Ipv4Addr_display(Unwrap(tcp.ip).a)
             ELSE "tcp:[" \o Ipv6Addr_display(Unwrap(tcp.ip).a) \o "]"
      [] tcp.ip = None /\ tcp.port # None -> "tcp:" \o u16_display(Unwrap(tcp.port))
      [] tcp.ip = None /\ tcp.port = None -> ""

\* A last arm that takes an IPv6 address with or without its brackets
Tcp_from_bare(value) ==
    LET open == strip_prefix(value, "[")
        inner == IF open = None THEN None ELSE strip_suffix(Unwrap(open), "]")
    IN  Only({IF ip # None THEN Ok(Tcp_with_ip(IpV6(Unwrap(ip))))
              ELSE Err(with_source(value, "Ipv6Addr")) :
              ip \in {Ipv6Addr_from_str(IF inner = None THEN value ELSE Unwrap(inner))}})

\* The last arm of <Tcp as FromStr>::from_str: an IPv6 address in brackets
Tcp_from_bracketed(value) ==
    LET open == strip_prefix(value, "[")
        inner == IF open = None THEN None ELSE strip_suffix(Unwrap(open), "]")
    IN  IF inner = None
        THEN Err(with_description(value, "Tcp",
                                  "ipv6 address must be enclosed in square brackets"))
        ELSE Only({IF ip # None THEN Ok(Tcp_with_ip(IpV6(Unwrap(ip))))
                   ELSE Err(with_source(value, "Ipv6Addr")) :
                   ip \in {Ipv6Addr_from_str(Unwrap(inner))}})

\* <Tcp as FromStr>::from_str
Tcp_from_str(s) ==
    LET stripped == strip_prefix(s, "tcp:")
        value == Unwrap(stripped)
    IN  IF stripped = None \/ stripped = Some("")
        THEN Err(with_description(s, "Tcp",
                 "incomplete or invalid tcp syntax, expected tcp:[host:[port]]"))
        ELSE Only({IF port # None THEN Ok(Tcp_with_port(Unwrap(port)))
                   ELSE IF addr # None THEN Ok(Tcp_new(Unwrap(addr).ip, Unwrap(addr).port))
                   ELSE IF ip # None THEN Ok(Tcp_with_ip(IpV4(Unwrap(ip))))
                   ELSE Tcp_from_bracketed(value) :
                   port \in {u16_from_str(value)},
                   addr \in {SocketAddr_from_str(value)},
                   ip \in {Ipv4Addr_from_str(value)}})

\* <Vsock as Display>::fmt
Vsock_display(vsock) ==
    "vsock:" \o u32_display(vsock.cid) \o ":" \o u32_display(vsock.port)

\* <Vsock as FromStr>::from_str
Vsock_from_str(s) ==
    LET outer == split_once(s, Colon)
        value == Unwrap(outer)[2]
        fields == split_once(value, Colon)
        cid == u32_from_str(Unwrap(fields)[1])
        port == u32_from_str(Unwrap(fields)[2])
    IN  IF outer = None \/ Unwrap(outer)[1] # "vsock"
        THEN Err(with_description(s, "Vsock",
                                  "invalid syntax, expected vsock:<cid>:<port>"))
        ELSE IF value = "" THEN Err(with_description(s, "Vsock", "missing cid and port"))
        ELSE IF fields = None THEN Err(with_description(value, "Vsock", "missing port"))
        ELSE IF cid = None THEN Err(with_source(Unwrap(fields)[1], "cid (u32)"))
        ELSE IF port = None THEN Err(with_source(Unwrap(fields)[2], "port (u32)"))
        ELSE Ok([cid |-> Unwrap(cid), port |-> Unwrap(port)])

\* display!: "<key>:{}" of the one field, a String or a u32
macro_display(ty, inner) ==
    Key(ty) \o ":" \o (IF ty \in StringFamilies THEN inner ELSE u32_display(inner))

\* A field that ends at its first colon
field_until_colon(ty, value) ==
    IF ty \in StringFamilies
    THEN Only({IF parts = None THEN Some(value) ELSE Some(Unwrap(parts)[1]) :
               parts \in {split_once(value, Colon)}})
    ELSE u32_from_str(value)

\* value.parse() of from_str!: String::from_str cannot fail, u32::from_str can
field_parse(ty, value) == IF ty \in StringFamilies THEN Some(value) ELSE u32_from_str(value)

\* from_str!: <$ty as FromStr>::from_str
macro_from_str(ty, s) ==
    LET parts == split_once(s, Colon)
        value == Unwrap(parts)[2]
    IN  IF parts = None \/ Unwrap(parts)[1] # Key(ty)
        THEN Err(with_description(s, ty,
                 "invalid syntax, expected " \o Key(ty) \o ":<" \o ValueName(ty) \o ">"))
        ELSE IF value = ""
        THEN Err(with_description(s, ty, "missing " \o ValueName(ty)))
        ELSE Only({IF field = None THEN Err(with_source(value, ValueName(ty)))
                   ELSE Ok(Unwrap(field)) :
                   field \in {field_parse(ty, value)}})

\* A parser that knows its family by the first characters of the text
family_by_prefix(ty, s) ==
    Only({IF parts # None /\ strip_prefix(s, TagPrefix(ty)) # None
          THEN Ok(Unwrap(parts)[2])
          ELSE Err(with_description(s, ty, "invalid syntax")) :
          parts \in {split_once(s, Colon)}})

\* s.parse::<T>() for a socket family T
family_from_str(ty, s) ==
    CASE ty = "Tcp" -> Tcp_from_str(s)
      [] ty = "Vsock" -> Vsock_from_str(s)
      [] OTHER -> macro_from_str(ty, s)

\* to_string() of a socket family T
family_display(ty, inner) ==
    CASE ty = "Tcp" -> Tcp_display(inner)
      [] ty = "Vsock" -> Vsock_display(inner)
      [] OTHER -> macro_display(ty, inner)

\* A value of enum AdbSocketFamily
Variant(ty, inner) == [family |-> ty, inner |-> inner]

\* <AdbSocketFamily as Display>::fmt
AdbSocketFamily_display(v) == family_display(v.family, v.inner)

\* The order in which <AdbSocketFamily as FromStr>::from_str tries the families
FamilyOrder == <<"Tcp", "LocalAbstract", "LocalReserved", "LocalFileSystem", "Dev",
                 "DevRaw", "Jdwp", "Vsock", "AcceptFd">>

\* The if / else-if chain of <AdbSocketFamily as FromStr>::from_str, from arm i on
RECURSIVE try_families(_, _)
try_families(s, i) ==
    IF i > Len(FamilyOrder)
    THEN Err(with_description(s, "AdbSocketFamily", "invalid syntax"))
    ELSE Only({IF is_ok(r) THEN Ok(Variant(FamilyOrder[i], Unwrap(r.val)))
               ELSE try_families(s, i + 1) :
               r \in {family_from_str(FamilyOrder[i], s)}})

\* <AdbSocketFamily as FromStr>::from_str
AdbSocketFamily_from_str(s) == try_families(s, 1)

(***************************************************************************)
(* socket.rs: Tcp::from_host and the name resolver behind it.  The         *)
(* resolver is a table from host names to [ok, addrs]: a failure, or the   *)
(* IP addresses in the order the platform returns them.  A name outside    *)
(* the table does not resolve.                                             *)
(***************************************************************************)
\* LookupHost (getaddrinfo): an IP address written as a host name is that
\* address, a name of the table is what the table says, any other name fails
lookup_host(host) ==
    Only({IF ip # None THEN [ok |-> TRUE, addrs |-> <<Unwrap(ip)>>]
          ELSE IF host \in DOMAIN resolver THEN resolver[host]
          ELSE [ok |-> FALSE, addrs |-> << >>] :
          ip \in {IpAddr_from_str(host)}})

\* <str as ToSocketAddrs>::to_socket_addrs: a SocketAddr literal is itself;
\* otherwise the text is split at the last ":" into a host name and a u16
\* port, and the host name is looked up
RECURSIVE last_colon(_, _)
last_colon(s, i) == IF i = 0 \/ At(s, i) = ":" THEN i ELSE last_colon(s, i - 1)
to_socket_addrs(s) ==
    LET colon == last_colon(s, Len(s))
        host == SubSeq(s, 1, colon - 1)
        port == u16_from_str(From(s, colon + 1))
    IN  Only({IF addr # None THEN Some(<<Unwrap(addr)>>)
              ELSE IF colon = 0 \/ port = None THEN None
              ELSE Only({IF ~found.ok THEN None
                         ELSE Some([i \in 1..Len(found.addrs) |->
                                       [ip |-> found.addrs[i], port |-> Unwrap(port)]]) :
                         found \in {lookup_host(host)}}) :
              addr \in {SocketAddr_from_str(s)}})

\* The host names that to_socket_addrs hands to the resolver: none when the
\* text is a SocketAddr literal or has no ":" and u16 port, else the text
\* before the last ":"
to_socket_addrs_lookups(s) ==
    LET colon == last_colon(s, Len(s))
    IN  IF SocketAddr_from_str(s) # None THEN << >>
        ELSE IF colon = 0 \/ u16_from_str(From(s, colon + 1)) = None THEN << >>
        ELSE <<SubSeq(s, 1, colon - 1)>>

\* A search that finds no IPv4 address
never_ipv4(addrs, i) == None

\* Iterator::find(SocketAddr::is_ipv4) on the addresses after the first
RECURSIVE find_ipv4(_, _)
find_ipv4(addrs, i) ==
    IF i > Len(addrs) THEN None
    ELSE IF addrs[i].ip.v = 4 THEN Some(addrs[i]) ELSE find_ipv4(addrs, i + 1)

\* Tcp::resolve
Tcp_resolve(host) ==
    Only({
        LET first == Unwrap(addrs)[1]
            found == find_ipv4(Unwrap(addrs), 2)
            chosen == IF found # None THEN Unwrap(found) ELSE first
        IN  IF addrs = None THEN Err(with_source(host, "std::vec::IntoIter<SocketAddr>"))
            ELSE IF Len(Unwrap(addrs)) = 0
            THEN Err(with_description(host, "SocketAddr", "no socket addresses found"))
            ELSE IF first.ip.v = 4 THEN Ok(Tcp_new(first.ip, first.port))
            ELSE Ok(Tcp_new(chosen.ip, chosen.port)) :
        addrs \in {to_socket_addrs(host)}})

\* A from_host that returns what the retry with ":0" resolved, port and all
Tcp_from_host_keeping_port(host) ==
    Only({IF is_ok(parsed) THEN parsed
          ELSE IF is_ok(resolved) THEN resolved
          ELSE IF is_ok(retried) THEN retried
          ELSE resolved :
          parsed \in {Tcp_from_str(host)},
          resolved \in {Tcp_resolve(host)},
          retried \in {Tcp_resolve(host \o ":0")}})

\* A from_host that reports the failure of the parse, not of the resolution
Tcp_from_host_format_error(host) ==
    Only({IF is_ok(parsed) THEN parsed
          ELSE IF is_ok(resolved) THEN resolved
          ELSE IF is_ok(retried) THEN Ok(Tcp_with_ip(Unwrap(Unwrap(retried.val).ip)))
          ELSE parsed :
          parsed \in {Tcp_from_str(host)},
          resolved \in {Tcp_resolve(host)},
          retried \in {Tcp_resolve(host \o ":0")}})

\* Tcp::from_host
Tcp_from_host(host) ==
    Only({IF is_ok(parsed) THEN parsed
          ELSE IF is_ok(resolved) THEN resolved
          ELSE IF is_ok(retried) THEN Ok(Tcp_with_ip(Unwrap(Unwrap(retried.val).ip)))
          ELSE resolved :
          parsed \in {Tcp_from_str(host)},
          resolved \in {Tcp_resolve(host)},
          retried \in {Tcp_resolve(host \o ":0")}})

\* The host names that Tcp::from_host hands to the resolver: none when the
\* text parses as a Tcp; otherwise those of the first resolve and, when it
\* fails, those of the retry with ":0" appended
Tcp_from_host_lookups(host) ==
    IF is_ok(Tcp_from_str(host)) THEN << >>
    ELSE to_socket_addrs_lookups(host) \o
         (IF is_ok(Tcp_resolve(host)) THEN << >>
          ELSE to_socket_addrs_lookups(host \o ":0"))

(***************************************************************************)
(* global_option.rs: AdbGlobalOption, a kind and its payload (<< >> for    *)
(* the four flags without a value).                                        *)
(***************************************************************************)
Kinds == {"ListenAll", "Usb", "TcpIp", "Serial", "TransportId", "Host", "Port",
          "Listen", "OneDevice", "ExitOnWriteError"}
ValuelessKinds == {"ListenAll", "Usb", "TcpIp", "ExitOnWriteError"}
StringKinds == {"Serial", "TransportId", "OneDevice"}
ValuedKinds == Kinds \ ValuelessKinds

Option(kind, payload) == [kind |-> kind, payload |-> payload]
Flag(kind) == Option(kind, << >>)

\* <AdbGlobalOption as Display>::fmt
AdbGlobalOption_display(opt) ==
    CASE opt.kind = "ListenAll" -> "-a"
      [] opt.kind = "Usb" -> "-d"
      [] opt.kind = "TcpIp" -> "-e"
      [] opt.kind = "Serial" -> "-s " \o opt.payload
      [] opt.kind = "TransportId" -> "-t " \o opt.payload
      [] opt.kind = "Host" -> "-H " \o IpAddr_display(opt.payload)
      [] opt.kind = "Port" -> "-P " \o u16_display(opt.payload)
      [] opt.kind = "Listen" -> "-L " \o Tcp_display(opt.payload)
      [] opt.kind = "OneDevice" -> "--one-device " \o opt.payload
      [] opt.kind = "ExitOnWriteError" -> "--exit-on-write-error"

\* An arm of "-H" that knows IPv4 addresses only
host_v4_only(RESOLVE, val) ==
    Only({IF ip # None THEN Ok(Option("Host", IpV4(Unwrap(ip))))
          ELSE Err(with_source(val, "IpAddr")) :
          ip \in {Ipv4Addr_from_str(val)}})

\* Step 3 of from_str_helper, the arm of "-H"
host_from_value(RESOLVE, val) ==
    IF RESOLVE
    THEN Only({IF is_err(tcp) THEN tcp
               ELSE IF Unwrap(tcp.val).ip = None
               THEN Err(with_description(val, "IpAddr", "missing ip"))
               ELSE Ok(Option("Host", Unwrap(Unwrap(tcp.val).ip))) :
               tcp \in {Tcp_from_host("tcp:" \o val)}})
    ELSE Only({IF ip # None THEN Ok(Option("Host", Unwrap(ip)))
               ELSE Err(with_source(val, "IpAddr")) :
               ip \in {IpAddr_from_str(val)}})

\* An arm of "-L" that writes the tcp: tag before the value, as "-H" does
listen_tagged(RESOLVE, val) ==
    Only({IF is_err(tcp) THEN tcp ELSE Ok(Option("Listen", Unwrap(tcp.val))) :
          tcp \in {IF RESOLVE THEN Tcp_from_host("tcp:" \o val)
                   ELSE Tcp_from_str("tcp:" \o val)}})

\* Step 3 of from_str_helper, the arm of "-L"
listen_from_value(RESOLVE, val) ==
    Only({IF is_err(tcp) THEN tcp ELSE Ok(Option("Listen", Unwrap(tcp.val))) :
          tcp \in {IF RESOLVE THEN Tcp_from_host(val) ELSE Tcp_from_str(val)}})

\* Step 3 of from_str_helper, the arm of "-P"
port_from_value(val) ==
    Only({IF p # None THEN Ok(Option("Port", Unwrap(p)))
          ELSE Err(with_source(val, "port (u16)")) :
          p \in {u16_from_str(val)}})

\* A step 3 that takes --s for -s
option_from_value_dashed(RESOLVE, opt, val) ==
    CASE opt \in {"-s", "--s"} -> Ok(Option("Serial", val))
      [] opt = "-t" -> Ok(Option("TransportId", val))
      [] opt = "-H" -> host_from_value(RESOLVE, val)
      [] opt = "-P" -> port_from_value(val)
      [] opt = "-L" -> listen_from_value(RESOLVE, val)
      [] opt = "--one-device" -> Ok(Option("OneDevice", val))
      [] OTHER -> Err(with_description(opt, "GlobalOption", "unknown option"))

\* Step 3 of from_str_helper: the option that the name and the value stand for
option_from_value(RESOLVE, opt, val) ==
    CASE opt = "-s" -> Ok(Option("Serial", val))
      [] opt = "-t" -> Ok(Option("TransportId", val))
      [] opt = "-H" -> host_from_value(RESOLVE, val)
      [] opt = "-P" -> port_from_value(val)
      [] opt = "-L" -> listen_from_value(RESOLVE, val)
      [] opt = "--one-device" -> Ok(Option("OneDevice", val))
      [] OTHER -> Err(with_description(opt, "GlobalOption", "unknown option"))

\* Steps 1 and 2 of from_str_helper, on the trimmed text
from_trimmed(RESOLVE, trimmed) ==
    CASE trimmed = "-a" -> Ok(Flag("ListenAll"))
      [] trimmed = "-d" -> Ok(Flag("Usb"))
      [] trimmed = "-e" -> Ok(Flag("TcpIp"))
      [] trimmed = "--exit-on-write-error" -> Ok(Flag("ExitOnWriteError"))
      [] OTHER ->
         Only({IF parts = None
               THEN Err(with_description("no value", "&str", "missing value"))
               ELSE Only({option_from_value(RESOLVE, Unwrap(parts)[1], val) :
                          val \in {trim(Unwrap(parts)[2])}}) :
               parts \in {split_once(trimmed, Whitespace)}})

\* AdbGlobalOption::from_str_helper::<RESOLVE>
from_str_helper(RESOLVE, s) ==
    Only({from_trimmed(RESOLVE, trimmed) : trimmed \in {trim(s)}})

\* <AdbGlobalOption as FromStr>::from_str
AdbGlobalOption_from_str(s) == from_str_helper(FALSE, s)
\* AdbGlobalOption::from_host
AdbGlobalOption_from_host(s) == from_str_helper(TRUE, s)

\* Arms that resolve the value of "-H" and "-L" whatever RESOLVE says
option_lookups_always(RESOLVE, opt, val) ==
    CASE opt = "-H" -> Tcp_from_host_lookups("tcp:" \o val)
      [] opt = "-L" -> Tcp_from_host_lookups(val)
      [] OTHER -> << >>

\* The host names that step 3 of from_str_helper hands to the resolver: the
\* arms of "-H" and "-L" call Tcp::from_host when RESOLVE is true
option_lookups(RESOLVE, opt, val) ==
    CASE RESOLVE /\ opt = "-H" -> Tcp_from_host_lookups("tcp:" \o val)
      [] RESOLVE /\ opt = "-L" -> Tcp_from_host_lookups(val)
      [] OTHER -> << >>

\* The host names that from_str_helper::<RESOLVE> hands to the resolver
from_str_helper_lookups(RESOLVE, s) ==
    Only({IF trimmed \in {"-a", "-d", "-e", "--exit-on-write-error"} \/ parts = None
          THEN << >>
          ELSE option_lookups(RESOLVE, Unwrap(parts)[1], trim(Unwrap(parts)[2])) :
          trimmed \in {trim(s)}, parts \in {split_once(trim(s), Whitespace)}})

(***************************************************************************)
(* command/mod.rs and global_option.rs: the AdbCommandBuilder.             *)
(***************************************************************************)
\* An insertion that forgets the options set before
replace_global_options(options, opt) == {opt}

\* AdbCommandBuilder::add_global_option_unchecked: HashSet::insert
add_global_option_unchecked(options, opt) == options \cup {opt}

\* Closures that match no option, and the options of two kinds
NeverMatches(opt) == FALSE
SerialOrTransportId(opt) == opt.kind \in {"Serial", "TransportId"}

\* The closures |opt| matches!(opt, AdbGlobalOption::X(_)) of the setters
serial_matches(opt) == opt.kind = "Serial"
transport_id_matches(opt) == opt.kind = "TransportId"
host_matches(opt) == opt.kind = "Host"
\* A closure that takes the Host entry for a Port entry as well
port_or_host_matches(opt) == opt.kind \in {"Port", "Host"}

port_matches(opt) == opt.kind = "Port"
listen_matches(opt) == opt.kind = "Listen"
one_device_matches(opt) == opt.kind = "OneDevice"

\* matches(opt): the call of the closure that a setter passed, the closure
\* being known by the name of its setter
matches_call(matches, opt) ==
    CASE matches = "serial" -> serial_matches(opt)
      [] matches = "transport_id" -> transport_id_matches(opt)
      [] matches = "host" -> host_matches(opt)
      [] matches = "port" -> port_matches(opt)
      [] matches = "listen" -> listen_matches(opt)
      [] matches = "one_device" -> one_device_matches(opt)

\* AdbCommandBuilder::add_global_option: retain what does not match, then add
add_global_option(options, opt, matches) ==
    add_global_option_unchecked({o \in options : ~matches_call(matches, o)}, opt)

(***************************************************************************)
(* Values the model draws from.                                            *)
(***************************************************************************)
\* All texts over an alphabet of at most n characters
RECURSIVE StringsUpTo(_, _)
StringsUpTo(alphabet, n) ==
    IF n = 0 THEN {""}
    ELSE LET shorter == StringsUpTo(alphabet, n - 1)
         IN  shorter \cup {s \o c : s \in shorter, c \in alphabet}

Localhost4 == IpV4(<<127, 0, 0, 1>>)
Localhost6 == IpV6(<<0, 0, 0, 0, 0, 0, 0, 1>>)

\* What the idle parts of the model hold
Idle == "idle"
NoValue == << >>
NoOrigin == [form |-> "none"]
NoResult == [parser |-> "none", res |-> Err(with_description("", "", ""))]
NoResolver == << >>
NoAdb == [working_directory |-> None]
NoBuilder == [command |-> "none"]
NoCommand == [program |-> ""]

SocketIdle ==
    /\ sock_pc = Idle /\ sock_value = NoValue /\ sock_origin = NoOrigin
    /\ sock_text = "" /\ sock_result = NoResult
OptionIdle ==
    /\ opt_pc = Idle /\ opt_value = NoValue /\ opt_origin = NoOrigin
    /\ opt_text = "" /\ opt_result = NoResult
BuilderIdle == global_options = {} /\ calls = << >>
CommandIdle == adb = NoAdb /\ command = NoBuilder /\ chain = << >> /\ cmd = NoCommand

(***************************************************************************)
(* Spec: one AdbCommandBuilder and the setters chained on it.              *)
(***************************************************************************)
BuilderStrings == {"A", "B"}
BuilderIps == {Localhost4, Localhost6}
BuilderPorts == {5037, 5555}
BuilderTcps == {Tcp_with_port(5037), Tcp_new(Localhost4, 5555)}

\* The kind of option a setter sets
KindOf(method) ==
    CASE method = "listen_all" -> "ListenAll"
      [] method = "usb" -> "Usb"
      [] method = "tcp_ip" -> "TcpIp"
      [] method = "serial" -> "Serial"
      [] method = "transport_id" -> "TransportId"
      [] method = "host" -> "Host"
      [] method = "port" -> "Port"
      [] method = "listen" -> "Listen"
      [] method = "one_device" -> "OneDevice"
      [] method = "exit_on_write_error" -> "ExitOnWriteError"

\* AdbCommandBuilder::new
BuilderInit ==
    /\ global_options = {}
    /\ calls = << >>
    /\ SocketIdle /\ OptionIdle /\ CommandIdle
    /\ resolver = NoResolver /\ lookups = << >>

\* A setter consumes the builder and returns it: the call joins the chain
Chained(method, arg) ==
    /\ Len(calls) < MaxCalls
    /\ calls' = Append(calls, [method |-> method, arg |-> arg])
    /\ UNCHANGED <<commandVars, socketVars, optionVars, resolverVars>>

listen_all ==
    /\ global_options' = add_global_option_unchecked(global_options, Flag("ListenAll"))
    /\ Chained("listen_all", << >>)

usb ==
    /\ global_options' = add_global_option_unchecked(global_options, Flag("Usb"))
    /\ Chained("usb", << >>)

tcp_ip ==
    /\ global_options' = add_global_option_unchecked(global_options, Flag("TcpIp"))
    /\ Chained("tcp_ip", << >>)

serial ==
    \E s \in BuilderStrings :
        /\ global_options' = add_global_option(global_options, Option("Serial", s),
                                               "serial")
        /\ Chained("serial", s)

transport_id ==
    \E id \in BuilderStrings :
        /\ global_options' = add_global_option(global_options, Option("TransportId", id),
                                               "transport_id")
        /\ Chained("transport_id", id)

host ==
    \E ip \in BuilderIps :
        /\ global_options' = add_global_option(global_options, Option("Host", ip),
                                               "host")
        /\ Chained("host", ip)

port ==
    \E p \in BuilderPorts :
        /\ global_options' = add_global_option(global_options, Option("Port", p),
                                               "port")
        /\ Chained("port", p)

listen ==
    \E addr \in BuilderTcps :
        /\ global_options' = add_global_option(global_options, Option("Listen", addr),
                                               "listen")
        /\ Chained("listen", addr)

one_device ==
    \E device \in BuilderStrings :
        /\ global_options' = add_global_option(global_options, Option("OneDevice", device),
                                               "one_device")
        /\ Chained("one_device", device)

exit_on_write_error ==
    /\ global_options' = add_global_option_unchecked(global_options,
                                                     Flag("ExitOnWriteError"))
    /\ Chained("exit_on_write_error", << >>)

Next ==
    \/ listen_all \/ usb \/ tcp_ip \/ serial \/ transport_id \/ host \/ port
    \/ listen \/ one_device \/ exit_on_write_error

Spec == BuilderInit /\ [][Next]_vars

\* The options of one kind in the builder's set
OfKind(kind) == {o \in global_options : o.kind = kind}
\* The positions in the chain of the calls that set an option of the kind
CallsOf(kind) == {i \in 1..Len(calls) : KindOf(calls[i].method) = kind}
\* The payload given by the last call that set an option of the kind
LastArg(kind) == calls[CHOOSE i \in CallsOf(kind) : \A j \in CallsOf(kind) : j <= i].arg

\* C1: after any chain of global-option setters on a fresh builder, the option
\* set never holds two entries of the same kind (same variant, payload ignored).
C1_OnePerKind ==
    \A a \in global_options : \A b \in global_options : a.kind = b.kind => a = b

\* C1 witness: a valued kind was set twice, with different payloads.
C1_Witness ==
    \E i \in 1..Len(calls) : \E j \in 1..Len(calls) :
        /\ i < j
        /\ calls[i].method = calls[j].method
        /\ calls[i].arg # calls[j].arg

\* C2: last write wins per kind: once a valued kind (Serial, TransportId, Host,
\* Port, Listen, OneDevice) has been set, whatever other setters were called
\* in between, the set holds exactly one entry of that kind, and its payload
\* is the one given by the last call that set the kind.
C2_LastWriteWins ==
    \A kind \in ValuedKinds :
        CallsOf(kind) # {} => OfKind(kind) = {Option(kind, LastArg(kind))}

\* C2 witness: payload A, then a setter of another kind, then payload B # A of
\* the first kind: the set holds B alone.
C2_Witness ==
    /\ Len(calls) = 3
    /\ calls[1].method = "serial" /\ calls[3].method = "serial"
    /\ calls[2].method # "serial"
    /\ calls[1].arg = "A" /\ calls[3].arg = "B"
    /\ OfKind("Serial") = {Option("Serial", "B")}

(***************************************************************************)
(* SpecSocket: a socket family value is formatted, or a text is written by *)
(* the caller; then the text is parsed, as one family or as                *)
(* AdbSocketFamily.                                                        *)
(***************************************************************************)
SampleV4 == {<<127, 0, 0, 1>>, <<0, 0, 0, 0>>, <<255, 255, 255, 255>>, <<192, 168, 1, 10>>}
SampleV6 == {<<0, 0, 0, 0, 0, 0, 0, 0>>,
             <<0, 0, 0, 0, 0, 0, 0, 1>>,
             <<65535, 0, 0, 0, 0, 0, 1, 21845>>,
             <<4369, 8738, 13107, 17476, 21845, 26214, 30583, 34952>>,
             <<0, 0, 0, 0, 0, 65535, 32512, 1>>,
             <<65152, 0, 0, 0, 0, 0, 0, 1>>,
             <<8193, 3512, 0, 0, 1, 0, 0, 1>>,
             <<1, 0, 0, 2, 0, 0, 0, 3>>,
             <<1, 0, 2, 0, 3, 0, 4, 0>>,
             <<0, 0, 1, 0, 0, 0, 0, 0>>,
             <<0, 0, 0, 0, 0, 0, 32512, 1>>}
SampleIps == {IpV4(o) : o \in SampleV4} \cup {IpV6(g) : g \in SampleV6}
SamplePorts == {0, 80, 5555, U16Max}
\* Numbers written as a port, some of them too large for a u16
PortNumbers == {<<0, p>> : p \in SamplePorts} \cup {<<1, 0>>, <<1, 34463>>}
SampleU32 == {<<0, 0>>, <<0, 1>>, <<0, 1234>>, <<1, 0>>, <<U16Max, U16Max>>}
\* Numbers written as a u32 field, some of them too large for a u32
FieldNumbers == SampleU32 \cup {<<LimbBase, 0>>, <<LimbBase, 1>>, <<10 * LimbBase, 0>>}
Signs == {"", "+", "-"}

NameAlphabet == {"a", ":", "/", " "}
SampleNames == StringsUpTo(NameAlphabet, MaxRemLen) \cup {"socket", "/dev/tty"}
RemAlphabet == {"0", "1", "a", ":", "-", "+", ".", "[", "]"}
Remainders == StringsUpTo(RemAlphabet, MaxRemLen)

\* The nine family tags, and texts that are none of them
FamilyTags == {"tcp", "vsock"} \cup {Key(ty) : ty \in MacroFamilies}
OtherTags == {"", "tcpx", "DEV", "dev-"}
TagOf(ty) ==
    CASE ty = "Tcp" -> "tcp"
      [] ty = "Vsock" -> "vsock"
      [] OTHER -> Key(ty)

TcpValues ==
    {[ip |-> i, port |-> p] : i \in {None} \cup {Some(a) : a \in SampleIps},
                              p \in {None} \cup {Some(n) : n \in SamplePorts}}
EmptyTcp == [ip |-> None, port |-> None]
VsockValues == {[cid |-> c, port |-> p] : c \in SampleU32, p \in SampleU32}

\* A family tag alone, or a tag, ":" and a remainder
WriteRaw(o) == IF o.form = "bare" THEN o.tag ELSE o.tag \o ":" \o o.rem

\* The text of an IP address inside a tcp endpoint, an IPv6 address in brackets
Bracketed(ip) ==
    IF ip.v = 4 THEN Ipv4Addr_display(ip.a) ELSE "[" \o Ipv6Addr_display(ip.a) \o "]"
\* The first two octets of an IPv4 address: an incomplete address
HalfV4(ip) == u8_display(ip.a[1]) \o "." \o u8_display(ip.a[2])

TcpForms == {"port", "ip", "ip_port", "bare_v6", "bare_v6_port", "port_colon",
             "ip_colon", "ip_port_colon", "half_v4", "half_v4_port"}
\* Forms that name an IPv6 address, or an IPv4 address
V6Forms == {"bare_v6", "bare_v6_port"}
V4Forms == {"half_v4", "half_v4_port"}

\* A tcp endpoint as a caller writes it, from an address and a port number
WriteTcp(o) ==
    "tcp:" \o
    CASE o.form = "port" -> limbs_display(o.port)
      [] o.form = "ip" -> Bracketed(o.ip)
      [] o.form = "ip_port" -> Bracketed(o.ip) \o ":" \o limbs_display(o.port)
      [] o.form = "bare_v6" -> Ipv6Addr_display(o.ip.a)
      [] o.form = "bare_v6_port" -> Ipv6Addr_display(o.ip.a) \o ":" \o limbs_display(o.port)
      [] o.form = "port_colon" -> limbs_display(o.port) \o ":"
      [] o.form = "ip_colon" -> Bracketed(o.ip) \o ":"
      [] o.form = "ip_port_colon" -> Bracketed(o.ip) \o ":" \o limbs_display(o.port) \o ":"
      [] o.form = "half_v4" -> HalfV4(o.ip)
      [] o.form = "half_v4_port" -> HalfV4(o.ip) \o ":" \o limbs_display(o.port)

TcpOrigins ==
    {[form |-> f, ip |-> i, port |-> n] : f \in TcpForms, i \in SampleIps, n \in PortNumbers}

\* A numeric field as a caller writes it: a sign, leading zeros, the number
RECURSIVE Zeros(_)
Zeros(k) == IF k = 0 THEN "" ELSE "0" \o Zeros(k - 1)
WriteNumber(f) == f.sign \o Zeros(f.pad) \o limbs_display(f.num)
NumberFields == {[sign |-> sg, pad |-> k, num |-> n] :
                     sg \in Signs, k \in 0..MaxPad, n \in FieldNumbers}
\* The fields of a vsock endpoint: fewer numbers, for there are two of them
VsockFields == {f \in NumberFields : f.num \in {<<0, 1>>, <<U16Max, U16Max>>, <<LimbBase, 0>>}}

\* A written number is accepted as a u32: no minus sign, at most 2^32 - 1
FitsU32(f) == f.sign # "-" /\ f.num[1] <= U16Max

WriteNumeric(o) == Key(o.family) \o ":" \o WriteNumber(o.field)
WriteVsock(o) == "vsock:" \o WriteNumber(o.cid) \o ":" \o WriteNumber(o.port)

\* A vsock endpoint written with a field missing, or with one field too many
VsockForms == {"no_port", "empty_cid", "empty_port", "extra"}
WriteVsockForm(o) ==
    "vsock:" \o
    CASE o.form = "no_port" -> WriteNumber(o.cid)
      [] o.form = "empty_cid" -> ":" \o WriteNumber(o.port)
      [] o.form = "empty_port" -> WriteNumber(o.cid) \o ":"
      [] o.form = "extra" -> WriteNumber(o.cid) \o ":" \o WriteNumber(o.port)
                                 \o ":" \o WriteNumber(o.cid)

SocketInit ==
    /\ BuilderIdle /\ CommandIdle /\ OptionIdle /\ resolver = NoResolver /\ lookups = << >>
    /\ sock_result = NoResult
    /\ \/ /\ sock_pc = "value"
          /\ sock_origin = NoOrigin
          /\ sock_text = ""
          /\ \/ \E tcp \in TcpValues : sock_value = Some(Variant("Tcp", tcp))
             \/ \E ty \in StringFamilies : \E name \in SampleNames :
                    sock_value = Some(Variant(ty, name))
             \/ \E ty \in {"Jdwp", "AcceptFd"} : \E n \in SampleU32 :
                    sock_value = Some(Variant(ty, n))
             \/ \E vsock \in VsockValues : sock_value = Some(Variant("Vsock", vsock))
       \/ /\ sock_pc = "text"
          /\ sock_value = NoValue
          /\ \/ \E tag \in FamilyTags \cup OtherTags :
                    /\ sock_origin = [form |-> "bare", tag |-> tag, rem |-> ""]
                    /\ sock_text = WriteRaw(sock_origin)
             \/ \E tag \in FamilyTags \cup OtherTags : \E rem \in Remainders :
                    /\ sock_origin = [form |-> "tagged", tag |-> tag, rem |-> rem]
                    /\ sock_text = WriteRaw(sock_origin)
             \/ \E o \in TcpOrigins :
                    /\ o.form \in V6Forms => o.ip.v = 6
                    /\ o.form \in V4Forms => o.ip.v = 4
                    /\ sock_origin = o
                    /\ sock_text = WriteTcp(o)
             \/ \E ty \in {"Jdwp", "AcceptFd"} : \E f \in NumberFields :
                    /\ sock_origin = [form |-> "numeric", family |-> ty, field |-> f]
                    /\ sock_text = WriteNumeric(sock_origin)
             \/ \E c \in VsockFields : \E p \in VsockFields :
                    /\ sock_origin = [form |-> "vsock", cid |-> c, port |-> p]
                    /\ sock_text = WriteVsock(sock_origin)
             \/ \E f \in VsockForms : \E c \in VsockFields : \E p \in VsockFields :
                    /\ FitsU32(c) /\ FitsU32(p) /\ c.pad = 0 /\ p.pad = 0
                    /\ sock_origin = [form |-> f, cid |-> c, port |-> p]
                    /\ sock_text = WriteVsockForm(sock_origin)

\* to_string() of the value
SocketDisplay ==
    /\ sock_pc = "value"
    /\ sock_text' = AdbSocketFamily_display(Unwrap(sock_value))
    /\ sock_origin' = [form |-> "display"]
    /\ sock_pc' = "text"
    /\ UNCHANGED <<sock_value, sock_result, builderVars, commandVars, optionVars, resolverVars>>

\* sock_text.parse::<T>() for one socket family T
SocketFromStr ==
    \E ty \in Families :
        /\ sock_pc = "text"
        /\ sock_result' = [parser |-> ty, res |-> family_from_str(ty, sock_text)]
        /\ sock_pc' = "parsed"
        /\ UNCHANGED <<sock_value, sock_origin, sock_text, builderVars, commandVars, optionVars,
                       resolverVars>>

\* sock_text.parse::<AdbSocketFamily>()
SocketFamilyFromStr ==
    /\ sock_pc = "text"
    /\ sock_result' = [parser |-> "AdbSocketFamily",
                       res |-> AdbSocketFamily_from_str(sock_text)]
    /\ sock_pc' = "parsed"
    /\ UNCHANGED <<sock_value, sock_origin, sock_text, builderVars, commandVars, optionVars, resolverVars>>

SocketNext == SocketDisplay \/ SocketFromStr \/ SocketFamilyFromStr

SpecSocket == SocketInit /\ [][SocketNext]_vars

\* The parse has run, by the parser of family ty or by "AdbSocketFamily"
ParsedBy(ty) == sock_pc = "parsed" /\ sock_result.parser = ty
\* The result is Ok(v), v of the type the parser returns
OkWith(r, v) == is_ok(r) /\ Unwrap(r.val) = v
\* The result is Ok of variant ty of AdbSocketFamily, holding inner
OkVariant(r, ty, inner) ==
    is_ok(r) /\ Unwrap(r.val).family = ty /\ Unwrap(r.val).inner = inner
\* The family whose tag is the text tag
FamilyOfTag(tag) == CHOOSE ty \in Families : TagOf(ty) = tag

\* The value formatted is the Tcp with neither ip nor port
FormattedEmptyTcp ==
    /\ sock_value # NoValue
    /\ Unwrap(sock_value).family = "Tcp"
    /\ Unwrap(sock_value).inner = EmptyTcp

\* The text came from formatting value v, and was parsed by v's own parser or
\* by AdbSocketFamily's: the parse gives v back
RoundTrips(v) ==
    /\ sock_result.parser = v.family => OkWith(sock_result.res, v.inner)
    /\ sock_result.parser = "AdbSocketFamily" =>
           OkVariant(sock_result.res, v.family, v.inner)

\* C3 as stated: every endpoint value of every family other than the Tcp
\* with neither ip nor port is given back by parsing its formatted text, by the
\* parser of its family and by the parser of AdbSocketFamily.
C3_RoundTripEveryValue ==
    sock_pc = "parsed" /\ sock_value # NoValue /\ ~FormattedEmptyTcp
    => RoundTrips(Unwrap(sock_value))

\* C3: every endpoint value other than the Tcp with neither ip nor port, and
\* other than a LocalAbstract, LocalReserved, LocalFileSystem, Dev or DevRaw
\* with the empty name, is given back by parsing its formatted text, by the
\* parser of its family and by the parser of AdbSocketFamily (same variant).
C3_RoundTrip ==
    sock_pc = "parsed" /\ sock_value # NoValue /\ ~FormattedEmptyTcp
        /\ (Unwrap(sock_value).family \in StringFamilies => Unwrap(sock_value).inner # "")
    => RoundTrips(Unwrap(sock_value))

\* C3 witness: a Tcp with an IPv6 address and a port came back from the
\* parser of AdbSocketFamily.
C3_Witness ==
    /\ ParsedBy("AdbSocketFamily") /\ sock_value # NoValue
    /\ Unwrap(sock_value).family = "Tcp"
    /\ Unwrap(sock_value).inner.ip # None /\ Unwrap(sock_value).inner.port # None
    /\ Unwrap(Unwrap(sock_value).inner.ip).v = 6
    /\ OkVariant(sock_result.res, "Tcp", Unwrap(sock_value).inner)

\* C5: the Tcp parser maps tcp:PORT to the port alone, tcp:IPV4 and tcp:[IPV6]
\* to the ip alone, tcp:IPV4:PORT and tcp:[IPV6]:PORT to both; it rejects an
\* IPv6 address without brackets (alone or followed by a port), a port above
\* 65535, an incomplete IPv4 address and a trailing colon.
C5_TcpForms ==
    ParsedBy("Tcp") /\ sock_origin.form \in TcpForms =>
        LET o == sock_origin
            inRange == o.port[1] = 0
        IN  CASE o.form = "port" /\ inRange ->
                     OkWith(sock_result.res, Tcp_with_port(o.port[2]))
              [] o.form = "ip" -> OkWith(sock_result.res, Tcp_with_ip(o.ip))
              [] o.form = "ip_port" /\ inRange ->
                     OkWith(sock_result.res, Tcp_new(o.ip, o.port[2]))
              [] OTHER -> is_err(sock_result.res)

\* C5 witness: tcp:[IPV6]:65535 was parsed into both fields.
C5_Witness ==
    /\ ParsedBy("Tcp") /\ sock_origin.form = "ip_port"
    /\ sock_origin.ip.v = 6 /\ sock_origin.port = <<0, U16Max>>
    /\ OkWith(sock_result.res, Tcp_new(sock_origin.ip, U16Max))

\* C6 as stated: the Tcp parser accepts tcp: followed by an IPv6 address
\* without brackets and without a port, and yields that ip and no port.
C6_BareIpv6Accepted ==
    ParsedBy("Tcp") /\ sock_origin.form = "bare_v6" =>
        OkWith(sock_result.res, Tcp_with_ip(sock_origin.ip))

\* C6: the Tcp parser rejects tcp: followed by an IPv6 address without
\* brackets and without a port, saying that the address must be enclosed in
\* square brackets; the same address in brackets is accepted and yields that
\* ip and no port.
C6_BareIpv6Rejected ==
    /\ ParsedBy("Tcp") /\ sock_origin.form = "bare_v6" =>
           /\ is_err(sock_result.res)
           /\ Unwrap(sock_result.res.err).description =
                  "ipv6 address must be enclosed in square brackets"
    /\ ParsedBy("Tcp") /\ sock_origin.form = "ip" /\ sock_origin.ip.v = 6 =>
           OkWith(sock_result.res, Tcp_with_ip(sock_origin.ip))

\* C6 witness: tcp:::1, the loopback address without brackets, was rejected.
C6_Witness ==
    /\ ParsedBy("Tcp") /\ sock_origin.form = "bare_v6"
    /\ sock_origin.ip = Localhost6 /\ sock_text = "tcp:::1"
    /\ is_err(sock_result.res)

\* C7: the Tcp with neither ip nor port formats to the empty text; the Tcp
\* parser rejects the empty text and tcp: alone; and every Tcp that a parse
\* returns, from the Tcp parser or from AdbSocketFamily's, has an ip or a port.
C7_EmptyTcp ==
    /\ FormattedEmptyTcp /\ sock_pc # "value" => sock_text = ""
    /\ ParsedBy("Tcp") /\ sock_text \in {"", "tcp:"} => is_err(sock_result.res)
    /\ ParsedBy("Tcp") /\ is_ok(sock_result.res) => Unwrap(sock_result.res.val) # EmptyTcp
    /\ ParsedBy("AdbSocketFamily") /\ is_ok(sock_result.res)
           /\ Unwrap(sock_result.res.val).family = "Tcp"
       => Unwrap(sock_result.res.val).inner # EmptyTcp

\* C7 witness: the Tcp with neither field was formatted, to the empty text,
\* and the Tcp parser rejected that text.
C7_Witness ==
    /\ ParsedBy("Tcp") /\ FormattedEmptyTcp
    /\ sock_text = "" /\ is_err(sock_result.res)

\* C8: every parser rejects a family tag alone and a family tag followed by a
\* colon and nothing; the parsers of LocalAbstract, LocalReserved,
\* LocalFileSystem, Dev and DevRaw accept their tag, a colon and any non-empty
\* remainder, colons included, and store the remainder as it is.
C8_Remainders ==
    sock_pc = "parsed" /\ sock_origin.form \in {"bare", "tagged"} =>
        /\ sock_origin.tag \in FamilyTags /\ sock_origin.rem = "" =>
               is_err(sock_result.res)
        /\ \A ty \in StringFamilies :
               sock_origin.tag = Key(ty) /\ sock_origin.rem # "" =>
                   /\ sock_result.parser = ty => OkWith(sock_result.res, sock_origin.rem)
                   /\ sock_result.parser = "AdbSocketFamily" =>
                          OkVariant(sock_result.res, ty, sock_origin.rem)

\* C8 witness: the Dev parser stored a remainder that holds a colon.
C8_Witness ==
    /\ ParsedBy("Dev") /\ sock_origin.form = "tagged" /\ sock_origin.tag = "dev"
    /\ \E i \in 1..Len(sock_origin.rem) : At(sock_origin.rem, i) = ":"
    /\ OkWith(sock_result.res, sock_origin.rem)

\* C9: the AdbSocketFamily parser goes by the exact text before the first
\* colon: dev-raw:NAME gives DevRaw(NAME), dev:NAME gives Dev(NAME); a text
\* without a colon or with a tag that is none of the nine is rejected; a text
\* with the tag of a family gives what that family's parser gives, and is
\* rejected when that parser rejects it.
C9_ExactTag ==
    ParsedBy("AdbSocketFamily") =>
        LET parts == split_once(sock_text, Colon)
            tag == Unwrap(parts)[1]
            own == family_from_str(FamilyOfTag(tag), sock_text)
        IN  /\ IF parts = None \/ tag \notin FamilyTags THEN is_err(sock_result.res)
               ELSE IF is_err(own) THEN is_err(sock_result.res)
               ELSE OkVariant(sock_result.res, FamilyOfTag(tag), Unwrap(own.val))
            /\ sock_origin.form = "tagged" /\ sock_origin.rem # "" =>
                   /\ sock_origin.tag = "dev-raw" =>
                          OkVariant(sock_result.res, "DevRaw", sock_origin.rem)
                   /\ sock_origin.tag = "dev" =>
                          OkVariant(sock_result.res, "Dev", sock_origin.rem)

\* C9 witness: dev-raw: and a name was parsed as DevRaw.
C9_Witness ==
    /\ ParsedBy("AdbSocketFamily") /\ sock_origin.form = "tagged"
    /\ sock_origin.tag = "dev-raw" /\ sock_origin.rem # ""
    /\ OkVariant(sock_result.res, "DevRaw", sock_origin.rem)

\* A text is an unsigned decimal: digits, after at most one plus sign
IsDecimal(t) ==
    LET digits == IF Len(t) > 0 /\ At(t, 1) = "+" THEN From(t, 2) ELSE t
    IN  digits # "" /\ \A i \in 1..Len(digits) : is_digit(At(digits, i), 10)
\* A written vsock remainder is two unsigned decimals around its first colon
IsDecimalPair(t) ==
    LET parts == split_once(t, Colon)
    IN  parts # None /\ IsDecimal(Unwrap(parts)[1]) /\ IsDecimal(Unwrap(parts)[2])

\* C10: the pid of Jdwp, the fd of AcceptFd and the cid and port of Vsock are
\* accepted exactly when they are written as a decimal number from 0 to
\* 2^32 - 1 without a minus sign, and the value stored is the number written;
\* a minus sign, a number from 2^32 on, and a remainder that is not a decimal
\* number make the parse fail.
C10_U32Fields ==
    /\ sock_pc = "parsed" /\ sock_origin.form = "numeric"
           /\ sock_result.parser = sock_origin.family =>
           IF FitsU32(sock_origin.field)
           THEN OkWith(sock_result.res, sock_origin.field.num)
           ELSE is_err(sock_result.res)
    /\ ParsedBy("Vsock") /\ sock_origin.form = "vsock" =>
           IF FitsU32(sock_origin.cid) /\ FitsU32(sock_origin.port)
           THEN OkWith(sock_result.res, [cid |-> sock_origin.cid.num,
                                         port |-> sock_origin.port.num])
           ELSE is_err(sock_result.res)
    /\ sock_pc = "parsed" /\ sock_origin.form = "tagged"
           /\ sock_origin.tag \in {"jdwp", "acceptfd"}
           /\ sock_result.parser = FamilyOfTag(sock_origin.tag) =>
           (is_ok(sock_result.res) <=> IsDecimal(sock_origin.rem))
    /\ ParsedBy("Vsock") /\ sock_origin.form = "tagged" /\ sock_origin.tag = "vsock" =>
           (is_ok(sock_result.res) <=> IsDecimalPair(sock_origin.rem))

\* C10 witness: 4294967295, the largest u32, was written as the fd of an
\* AcceptFd, and the parse stored it.
C10_Witness ==
    /\ ParsedBy("AcceptFd") /\ sock_origin.form = "numeric"
    /\ sock_origin.field = [sign |-> "", pad |-> 0, num |-> <<U16Max, U16Max>>]
    /\ sock_text = "acceptfd:4294967295"
    /\ OkWith(sock_result.res, <<U16Max, U16Max>>)

(***************************************************************************)
(* SpecOption: a global option is formatted, then the text is parsed.      *)
(***************************************************************************)
OptionAlphabet == {"a", " ", "-"}
OptionStrings == StringsUpTo(OptionAlphabet, MaxValLen)

\* The flag that each kind of option is written with
FlagText(kind) ==
    CASE kind = "ListenAll" -> "-a"
      [] kind = "Usb" -> "-d"
      [] kind = "TcpIp" -> "-e"
      [] kind = "Serial" -> "-s"
      [] kind = "TransportId" -> "-t"
      [] kind = "Host" -> "-H"
      [] kind = "Port" -> "-P"
      [] kind = "Listen" -> "-L"
      [] kind = "OneDevice" -> "--one-device"
      [] kind = "ExitOnWriteError" -> "--exit-on-write-error"
\* Values as a caller writes them after a flag: nothing, a string, an IP
\* address, a number, a tcp endpoint about a loopback address, a host name
\* with or without the tcp: tag and a port
ValueKinds == {"none", "string", "ip", "port", "tcp", "host"}
WrittenVals(kind) ==
    CASE kind = "none" -> {[kind |-> kind, text |-> ""]}
      [] kind = "string" ->
         {[kind |-> kind, text |-> t] : t \in {"a", "emulator-5554", "a b", "a \t b"}}
      [] kind = "ip" ->
         {[kind |-> kind, text |-> IpAddr_display(ip), ip |-> ip] :
             ip \in {Localhost4, Localhost6, IpV4(<<192, 168, 1, 10>>),
                     IpV6(<<65535, 0, 0, 0, 0, 0, 1, 21845>>)}}
      [] kind = "port" ->
         {[kind |-> kind, text |-> sg \o limbs_display(n), sign |-> sg, num |-> n] :
             sg \in Signs, n \in PortNumbers}
      [] kind = "tcp" ->
         {[kind |-> kind, text |-> WriteTcp(o), tcp |-> o] :
             o \in {t \in TcpOrigins :
                       /\ t.ip \in {Localhost4, Localhost6}
                       /\ t.port \in {<<0, 5555>>, <<1, 0>>}
                       /\ (t.form \in V6Forms => t.ip.v = 6)
                       /\ (t.form \in V4Forms => t.ip.v = 4)}}
      [] kind = "host" ->
         {[kind |-> kind, text |-> tag \o h \o suffix, name |-> h, tag |-> tag,
           suffix |-> suffix] :
             tag \in {"", "tcp:"}, h \in {"localhost", "example.com"},
             suffix \in {"", ":5555"}}

\* An option as a caller writes it: whitespace, the flag, whitespace, the
\* value, whitespace
WriteOption(o) == o.lead \o o.flag \o o.sep \o o.val.text \o o.trail

OptionInit ==
    /\ BuilderIdle /\ CommandIdle /\ SocketIdle /\ resolver = NoResolver /\ lookups = << >>
    /\ opt_result = NoResult
    /\ \/ /\ opt_pc = "value"
          /\ opt_origin = NoOrigin
          /\ opt_text = ""
          /\ \/ \E kind \in ValuelessKinds : opt_value = Some(Flag(kind))
             \/ \E kind \in StringKinds : \E v \in OptionStrings :
                    opt_value = Some(Option(kind, v))
             \/ \E ip \in SampleIps : opt_value = Some(Option("Host", ip))
             \/ \E p \in SamplePorts : opt_value = Some(Option("Port", p))
             \/ \E tcp \in TcpValues : opt_value = Some(Option("Listen", tcp))
       \/ /\ opt_pc = "text"
          /\ opt_value = NoValue
          /\ \E kind \in ValueKinds : \E v \in WrittenVals(kind) :
             \E lead \in {"", " ", "\r\n\t "} :
             \E flag \in {FlagText(k) : k \in Kinds} \cup {"-z", "-S", "--one", "-"} :
             \E sep \in {"", " ", "\t", "  ", "\r\n"} :
             \E trail \in {"", " ", "\t\r\n"} :
                 /\ sep = "" => kind = "none"
                 /\ opt_origin = [form |-> "written", lead |-> lead, flag |-> flag,
                                  sep |-> sep, val |-> v, trail |-> trail]
                 /\ opt_text = WriteOption(opt_origin)

\* to_string() of the option
OptionDisplay ==
    /\ opt_pc = "value"
    /\ opt_text' = AdbGlobalOption_display(Unwrap(opt_value))
    /\ opt_origin' = [form |-> "display"]
    /\ opt_pc' = "text"
    /\ UNCHANGED <<opt_value, opt_result, builderVars, commandVars, socketVars, resolverVars>>

\* opt_text.parse::<AdbGlobalOption>()
OptionFromStr ==
    /\ opt_pc = "text"
    /\ opt_result' = [parser |-> "from_str", res |-> AdbGlobalOption_from_str(opt_text)]
    /\ lookups' = lookups \o from_str_helper_lookups(FALSE, opt_text)
    /\ opt_pc' = "parsed"
    /\ UNCHANGED <<opt_value, opt_origin, opt_text, builderVars, commandVars, socketVars, resolver>>

\* format!("-{}", opt_text).parse::<AdbGlobalOption>(): the parse of the text
\* with one more "-" before it
OptionFromStrDashed ==
    /\ opt_pc = "text"
    /\ opt_result' = [parser |-> "from_str", res |-> AdbGlobalOption_from_str("-" \o opt_text)]
    /\ lookups' = lookups \o from_str_helper_lookups(FALSE, "-" \o opt_text)
    /\ opt_pc' = "dashed"
    /\ UNCHANGED <<opt_value, opt_origin, opt_text, builderVars, commandVars, socketVars, resolver>>

OptionNext == OptionDisplay \/ OptionFromStr \/ OptionFromStrDashed

SpecOption == OptionInit /\ [][OptionNext]_vars

\* The parse gave the option o back
OptionRoundTrips(o) ==
    /\ is_ok(opt_result.res)
    /\ Unwrap(opt_result.res.val).kind = o.kind
    /\ Unwrap(opt_result.res.val).payload = o.payload
\* The option formatted is Listen of the Tcp with neither ip nor port
FormattedEmptyListen ==
    /\ opt_value # NoValue
    /\ Unwrap(opt_value).kind = "Listen"
    /\ Unwrap(opt_value).payload = EmptyTcp

\* C4 as stated: for every option (the four flags, Serial, TransportId and
\* OneDevice with any string, Host with any IP, Port with any u16, Listen with
\* any Tcp that has an ip or a port) the parse without name resolution of the
\* formatted text succeeds and gives the option back.
C4_RoundTripEveryOption ==
    opt_pc = "parsed" /\ opt_value # NoValue /\ ~FormattedEmptyListen
    => OptionRoundTrips(Unwrap(opt_value))

\* C4: for every option whose payload, if it is a string (Serial,
\* TransportId, OneDevice), is not empty and neither begins nor ends with
\* whitespace, and, if it is a Tcp (Listen), has an ip or a port, the parse
\* without name resolution of the formatted text succeeds and gives the
\* option back.
C4_RoundTrip ==
    opt_pc = "parsed" /\ opt_value # NoValue /\ ~FormattedEmptyListen
        /\ (Unwrap(opt_value).kind \in StringKinds =>
                /\ Unwrap(opt_value).payload # ""
                /\ trim(Unwrap(opt_value).payload) = Unwrap(opt_value).payload)
    => OptionRoundTrips(Unwrap(opt_value))

\* C4 witness: Listen of a Tcp with an IPv6 address and a port came back.
C4_Witness ==
    /\ opt_pc = "parsed" /\ opt_value # NoValue
    /\ Unwrap(opt_value).kind = "Listen"
    /\ Unwrap(opt_value).payload = Tcp_new(Localhost6, 5555)
    /\ opt_text = "-L tcp:[::1]:5555"
    /\ OptionRoundTrips(Unwrap(opt_value))

\* C11: the Vsock parser accepts vsock:CID:PORT only when both fields are
\* there and are u32 numbers, and then stores both; vsock:CID without a port,
\* vsock::PORT with an empty cid, vsock:CID: with an empty port and
\* vsock:CID:PORT followed by a colon and more are all rejected, by the Vsock
\* parser and by the parser of AdbSocketFamily.
C11_VsockBothFields ==
    sock_pc = "parsed" /\ sock_result.parser \in {"Vsock", "AdbSocketFamily"} =>
        /\ sock_origin.form = "vsock" =>
               IF FitsU32(sock_origin.cid) /\ FitsU32(sock_origin.port)
               THEN /\ is_ok(sock_result.res)
                    /\ sock_result.parser = "Vsock" =>
                           Unwrap(sock_result.res.val) =
                               [cid |-> sock_origin.cid.num, port |-> sock_origin.port.num]
               ELSE is_err(sock_result.res)
        /\ sock_origin.form \in VsockForms => is_err(sock_result.res)

\* C11 witness: vsock::1, a vsock endpoint with an empty cid, was rejected by
\* the Vsock parser.
C11_Witness ==
    /\ ParsedBy("Vsock") /\ sock_origin.form = "empty_cid"
    /\ sock_text = "vsock::1" /\ is_err(sock_result.res)


\* A text written by a caller was parsed without name resolution
WrittenParsed ==
    opt_pc = "parsed" /\ opt_origin.form = "written" /\ opt_result.parser = "from_str"
\* The parse gave the option of this kind and payload
GaveOption(kind, payload) == OptionRoundTrips(Option(kind, payload))
\* The parse failed with this description, about this target
FailedWith(target, description) ==
    /\ is_err(opt_result.res)
    /\ Unwrap(opt_result.res.err).target = target
    /\ Unwrap(opt_result.res.err).description = description
\* The parse did with the value what the Tcp parser without resolution does
ListenOf(tcp) ==
    IF is_ok(tcp) THEN GaveOption("Listen", Unwrap(tcp.val)) ELSE opt_result.res = tcp
\* The written number is a u16
FitsU16(v) == v.sign # "-" /\ v.num[1] = 0

\* C12: the parse without name resolution trims the text; -a, -d, -e and
\* --exit-on-write-error alone give ListenAll, Usb, TcpIp and
\* ExitOnWriteError; otherwise the text is split at its first whitespace and
\* the value is trimmed: -s, -t and --one-device carry the value as written,
\* whitespace inside it included; -H gives Host of the value parsed as an IP
\* address; -P gives Port of the value parsed as a u16; -L gives Listen of
\* what the Tcp parser without resolution makes of the value.
C12_Dispatch ==
    WrittenParsed =>
        /\ \A kind \in ValuelessKinds :
               opt_origin.flag = FlagText(kind) /\ opt_origin.val.kind = "none"
               => GaveOption(kind, << >>)
        /\ \A kind \in StringKinds :
               opt_origin.flag = FlagText(kind) /\ opt_origin.val.kind # "none"
               => GaveOption(kind, opt_origin.val.text)
        /\ opt_origin.flag = "-H" /\ opt_origin.val.kind = "ip"
               => GaveOption("Host", opt_origin.val.ip)
        /\ opt_origin.flag = "-P" /\ opt_origin.val.kind = "port"
                /\ FitsU16(opt_origin.val)
               => GaveOption("Port", opt_origin.val.num[2])
        /\ opt_origin.flag = "-L" /\ opt_origin.val.kind # "none"
               => ListenOf(Tcp_from_str(opt_origin.val.text))
        /\ opt_origin.flag = "-L" /\ opt_origin.val.kind = "tcp"
                /\ opt_origin.val.tcp.form = "ip_port" /\ opt_origin.val.tcp.port[1] = 0
               => GaveOption("Listen", Tcp_new(opt_origin.val.tcp.ip,
                                               opt_origin.val.tcp.port[2]))

\* C12 witness: a serial with whitespace inside it, padded on both sides,
\* came out as written.
C12_Witness ==
    /\ WrittenParsed
    /\ opt_text = " -s  a \t b\t\r\n"
    /\ GaveOption("Serial", "a \t b")


\* C13: a flag that takes a value (-s, -t, -H, -P, -L, --one-device) written
\* without one, whitespace around it or not, fails with the missing-value
\* error; no parse gives a Serial, TransportId or OneDevice with an empty
\* payload.
C13_MissingValue ==
    WrittenParsed =>
        /\ \A kind \in ValuedKinds :
               opt_origin.flag = FlagText(kind) /\ opt_origin.val.kind = "none"
               => FailedWith("&str", "missing value")
        /\ is_ok(opt_result.res) /\ Unwrap(opt_result.res.val).kind \in StringKinds
               => Unwrap(opt_result.res.val).payload # ""

\* C13 witness: -s between whitespace and nothing else was rejected.
C13_Witness ==
    /\ WrittenParsed
    /\ opt_text = " -s\t\t\r\n"
    /\ FailedWith("&str", "missing value")
    /\ Unwrap(opt_result.res.err).value = "no value"


\* The flag written is none of the ten that adb knows
UnknownFlagWritten == \A kind \in Kinds : opt_origin.flag # FlagText(kind)

\* C14: a text whose flag is not one of the recognised flags fails with the
\* unknown-option error, with a value after the flag (-z foo) and without
\* one (-z alone).
C14_UnknownOption ==
    WrittenParsed /\ UnknownFlagWritten => FailedWith("GlobalOption", "unknown option")

\* The part of C14 that the parser keeps: an unknown flag followed by a
\* value fails with the unknown-option error, which names the flag.
C14_UnknownOptionWithValue ==
    WrittenParsed /\ UnknownFlagWritten /\ opt_origin.val.kind # "none" =>
        /\ FailedWith("GlobalOption", "unknown option")
        /\ Unwrap(opt_result.res.err).value = opt_origin.flag

\* An unknown flag written alone was rejected, as a missing value
C14_AloneIsMissingValue ==
    /\ WrittenParsed
    /\ opt_text = "-z"
    /\ FailedWith("&str", "missing value")


\* The parse failed on the value written, with the error of the value's own
\* parser as its source
InvalidValue(target) ==
    /\ FailedWith(target, "")
    /\ Unwrap(opt_result.res.err).source
    /\ Unwrap(opt_result.res.err).value = opt_origin.val.text

\* C15: without name resolution, -H with a value that is not an IP address
\* (a host name, a number, a tcp endpoint, any other string) and -P with a
\* value that is not a number from 0 to 65535 (65536, a number with a minus
\* sign, an address, a string) fail with an error about the value; a Port
\* that comes out of a parse is the number written, never the number modulo
\* 65536, and a Host that comes out was written as an IP address.
C15_InvalidValue ==
    WrittenParsed =>
        /\ opt_origin.flag = "-H" /\ opt_origin.val.kind \notin {"none", "ip"}
               => InvalidValue("IpAddr")
        /\ opt_origin.flag = "-P" /\ opt_origin.val.kind \notin {"none", "port"}
               => InvalidValue("port (u16)")
        /\ opt_origin.flag = "-P" /\ opt_origin.val.kind = "port"
                /\ ~FitsU16(opt_origin.val)
               => InvalidValue("port (u16)")
        /\ is_ok(opt_result.res) /\ Unwrap(opt_result.res.val).kind = "Port"
               => /\ opt_origin.val.kind = "port"
                  /\ FitsU16(opt_origin.val)
                  /\ Unwrap(opt_result.res.val).payload = opt_origin.val.num[2]
        /\ is_ok(opt_result.res) /\ Unwrap(opt_result.res.val).kind = "Host"
               => opt_origin.val.kind = "ip"

\* C15 witness: the port 65536 was rejected.
C15_Witness ==
    /\ WrittenParsed
    /\ opt_text = "-P 65536"
    /\ InvalidValue("port (u16)")


\* The text written with no whitespace around it and one space before the
\* value
Canonical(o) == o.flag \o (IF o.val.kind = "none" THEN "" ELSE " " \o o.val.text)
\* The parse gave the option that r holds, if r holds one
SameOptionAs(r) ==
    is_ok(r) => GaveOption(Unwrap(r.val).kind, Unwrap(r.val).payload)

\* C16: when the flag alone, or the flag, one space and the value, parses
\* to an option, the same text with spaces, tabs, carriage returns and line
\* feeds before and after it, and with two spaces, a tab or a line break in
\* place of the one space, parses to the same option.
C16_WhitespaceInvariance ==
    WrittenParsed => SameOptionAs(AdbGlobalOption_from_str(Canonical(opt_origin)))

\* C16 witness: a Host written after a line break and two spaces, before a
\* tab and a line break, came out as the address.
C16_Witness ==
    /\ WrittenParsed
    /\ opt_text = "\r\n\t -H  ::1\t\r\n"
    /\ GaveOption("Host", Localhost6)


\* The setters of the flags without a value
ValuelessSetters == {"listen_all", "usb", "tcp_ip", "exit_on_write_error"}
\* The step is a call of the setter, and the chain holds a call of it already
CalledAgain(method) ==
    /\ Len(calls') = Len(calls) + 1
    /\ calls'[Len(calls')].method = method
    /\ \E i \in 1..Len(calls) : calls[i].method = method

\* C17: a second call of listen_all, usb, tcp_ip or exit_on_write_error,
\* right after the first or after other setters, leaves the set of options
\* as it was before the call, the flag in it.
C17_FlagsIdempotent ==
    [][\A method \in ValuelessSetters :
           CalledAgain(method) =>
               /\ global_options' = global_options
               /\ Flag(KindOf(method)) \in global_options]_vars

\* C17 witness: usb was called, then serial, then usb again; the set holds
\* the two options.
C17_Witness ==
    /\ Len(calls) = 3
    /\ calls[1].method = "usb" /\ calls[2].method = "serial" /\ calls[3].method = "usb"
    /\ Cardinality(global_options) = 2
    /\ Flag("Usb") \in global_options


(***************************************************************************)
(* SpecResolve: a name resolver, a text, and one parse of the text, by a   *)
(* parser that resolves host names or by one that does not.                *)
(***************************************************************************)
MaxAddrs == 3

\* The addresses a name resolves to
ResolveIps == {Localhost4, IpV4(<<192, 168, 1, 10>>), Localhost6,
               IpV6(<<65535, 0, 0, 0, 0, 0, 1, 21845>>)}
RECURSIVE AddrLists(_)
AddrLists(n) ==
    IF n = 0 THEN {<< >>}
    ELSE LET shorter == AddrLists(n - 1)
         IN  shorter \cup {Append(l, ip) : l \in shorter, ip \in ResolveIps}

\* The resolvers: localhost fails or resolves to a list of at most MaxAddrs
\* addresses, example.com resolves to an IPv6 and an IPv4 address, no other
\* name resolves
ResolverTables ==
    {[h \in {"localhost", "example.com"} |->
         IF h = "localhost" THEN found
         ELSE [ok |-> TRUE, addrs |-> <<IpV6(<<65535, 0, 0, 0, 0, 0, 1, 21845>>),
                                        IpV4(<<192, 168, 1, 10>>)>>]] :
     found \in {[ok |-> FALSE, addrs |-> << >>]} \cup
               {[ok |-> TRUE, addrs |-> l] : l \in AddrLists(MaxAddrs)}}

\* A host as a caller writes it: with or without the tcp: tag, a name or an
\* address, with or without a port
WriteHost(o) == o.tag \o o.name \o o.suffix

ResolveInit ==
    /\ BuilderIdle /\ CommandIdle
    /\ resolver \in ResolverTables /\ lookups = << >>
    /\ sock_value = NoValue /\ sock_result = NoResult
    /\ opt_value = NoValue /\ opt_result = NoResult
    /\ \/ /\ opt_pc = Idle /\ opt_origin = NoOrigin /\ opt_text = ""
          /\ sock_pc = "text"
          /\ \E tag \in {"", "tcp:"} :
             \E name \in {"localhost", "example.com", "unknown", "::1"} :
             \E suffix \in {"", ":5555", ":"} :
                 /\ sock_origin = [form |-> "host", tag |-> tag, name |-> name,
                                   suffix |-> suffix]
                 /\ sock_text = WriteHost(sock_origin)
       \/ /\ sock_pc = Idle /\ sock_origin = NoOrigin /\ sock_text = ""
          /\ opt_pc = "text"
          /\ \E kind \in ValueKinds : \E v \in WrittenVals(kind) :
             \E flag \in {"-H", "-L", "-P", "-s", "-a", "-z"} :
                 /\ kind = "port" => v.sign = ""
                 /\ kind = "tcp" => v.tcp.port = <<0, 5555>>
                 /\ opt_origin = [form |-> "written", lead |-> "", flag |-> flag,
                                  sep |-> IF kind = "none" THEN "" ELSE " ",
                                  val |-> v, trail |-> ""]
                 /\ opt_text = WriteOption(opt_origin)

\* Tcp::from_host(sock_text)
TcpFromHost ==
    /\ sock_pc = "text"
    /\ sock_result' = [parser |-> "Tcp::from_host", res |-> Tcp_from_host(sock_text)]
    /\ lookups' = lookups \o Tcp_from_host_lookups(sock_text)
    /\ sock_pc' = "parsed"
    /\ UNCHANGED <<sock_value, sock_origin, sock_text, builderVars, commandVars, optionVars, resolver>>

\* AdbGlobalOption::from_host(opt_text)
OptionFromHost ==
    /\ opt_pc = "text"
    /\ opt_result' = [parser |-> "from_host", res |-> AdbGlobalOption_from_host(opt_text)]
    /\ lookups' = lookups \o from_str_helper_lookups(TRUE, opt_text)
    /\ opt_pc' = "parsed"
    /\ UNCHANGED <<opt_value, opt_origin, opt_text, builderVars, commandVars, socketVars, resolver>>

ResolveNext ==
    TcpFromHost \/ OptionFromHost \/ SocketFromStr \/ SocketFamilyFromStr \/ OptionFromStr

SpecResolve == ResolveInit /\ [][ResolveNext]_vars


\* A parser that does not resolve has run: FromStr of a socket family, of
\* AdbSocketFamily, or of AdbGlobalOption
ParsedWithoutResolving ==
    \/ sock_pc = "parsed" /\ sock_result.parser # "Tcp::from_host"
    \/ opt_pc = "parsed" /\ opt_result.parser = "from_str"
\* The text names a host by a name, which only a resolver can turn into an
\* address
HostNameWritten ==
    \/ sock_pc = "parsed" /\ sock_origin.form = "host" /\ sock_origin.name # "::1"
    \/ /\ opt_pc = "parsed" /\ opt_origin.form = "written"
       /\ opt_origin.flag \in {"-H", "-L"} /\ opt_origin.val.kind = "host"

\* C18: the parsers that do not resolve (FromStr of Tcp and of every other
\* socket family, of AdbSocketFamily and of AdbGlobalOption) hand no host
\* name to the resolver, whatever the text and whatever the resolver knows,
\* and reject a host name where an address is expected; a name reaches the
\* resolver through Tcp::from_host and AdbGlobalOption::from_host only.
C18_NoResolution ==
    ParsedWithoutResolving =>
        /\ lookups = << >>
        /\ HostNameWritten =>
               IF sock_pc = "parsed" THEN is_err(sock_result.res)
               ELSE is_err(opt_result.res)

\* C18 witness: -L tcp:localhost:5555 was parsed without resolution while
\* the resolver knows localhost; the parse failed and the resolver was not
\* asked.
C18_Witness ==
    /\ opt_pc = "parsed" /\ opt_result.parser = "from_str"
    /\ opt_text = "-L tcp:localhost:5555"
    /\ resolver["localhost"].ok /\ resolver["localhost"].addrs = <<Localhost4>>
    /\ is_err(opt_result.res)
    /\ lookups = << >>

\* A host name reached the resolver through from_host
C18_FromHostResolves ==
    /\ opt_pc = "parsed" /\ opt_result.parser = "from_host"
    /\ opt_text = "-L localhost:5555"
    /\ lookups = <<"localhost">>
    /\ is_ok(opt_result.res)


\* Tcp::from_host has run on a name of the resolver's table, written without
\* the tcp: tag and followed by this suffix
ResolvedName(suffix) ==
    /\ sock_pc = "parsed" /\ sock_result.parser = "Tcp::from_host"
    /\ sock_origin.tag = "" /\ sock_origin.suffix = suffix
    /\ sock_origin.name \in DOMAIN resolver
\* The first IPv4 address of a list that is not empty, or else its first
\* address
Preferred(addrs) ==
    LET v4 == {i \in 1..Len(addrs) : addrs[i].v = 4}
    IN  IF v4 = {} THEN addrs[1] ELSE addrs[CHOOSE i \in v4 : \A j \in v4 : i <= j]
\* Tcp::from_host returned this ip and port (an Option)
ResolvedTo(ip, p) ==
    /\ is_ok(sock_result.res)
    /\ Unwrap(sock_result.res.val).ip = Some(ip)
    /\ Unwrap(sock_result.res.val).port = p

\* C19: when the resolver returns addresses for host:port, Tcp::resolve
\* takes the first IPv4 address of the list if there is one, wherever it
\* stands, and else the first address; a lookup that fails and a lookup that
\* returns no address are errors, the second with the description
\* "no socket addresses found".
C19_AddressSelection ==
    ResolvedName(":5555") =>
        IF ~resolver[sock_origin.name].ok
        THEN is_err(sock_result.res) /\ Unwrap(sock_result.res.err).source
        ELSE IF resolver[sock_origin.name].addrs = << >>
        THEN /\ is_err(sock_result.res)
             /\ Unwrap(sock_result.res.err).description = "no socket addresses found"
        ELSE ResolvedTo(Preferred(resolver[sock_origin.name].addrs), Some(5555))

\* C19 witness: localhost resolved to two IPv6 addresses and then an IPv4
\* address, and the IPv4 address was taken.
C19_Witness ==
    /\ ResolvedName(":5555")
    /\ sock_text = "localhost:5555"
    /\ resolver["localhost"].addrs =
           <<Localhost6, IpV6(<<65535, 0, 0, 0, 0, 0, 1, 21845>>), Localhost4>>
    /\ ResolvedTo(Localhost4, Some(5555))
    /\ lookups = <<"localhost">>


\* The resolver returns at least one address for the name written
NameKnown ==
    resolver[sock_origin.name].ok /\ resolver[sock_origin.name].addrs # << >>

\* C20: Tcp::from_host on a host name alone that the resolver knows gives
\* the resolved address and no port: the port 0 of the ":0" appended for the
\* lookup is not in the result; on name:port it gives the resolved address
\* and that port.
C20_HostNameOnly ==
    /\ ResolvedName("") /\ NameKnown =>
           /\ ResolvedTo(Preferred(resolver[sock_origin.name].addrs), None)
           /\ lookups = <<sock_origin.name>>
    /\ ResolvedName(":5555") /\ NameKnown =>
           ResolvedTo(Preferred(resolver[sock_origin.name].addrs), Some(5555))

\* C20 witness: localhost alone, resolved to an IPv6 and an IPv4 address,
\* came out as the IPv4 address without a port.
C20_Witness ==
    /\ ResolvedName("")
    /\ sock_text = "localhost"
    /\ resolver["localhost"].addrs = <<Localhost6, Localhost4>>
    /\ OkWith(sock_result.res, Tcp_with_ip(Localhost4))


\* The targets of the errors of Tcp::resolve: the lookup failed, or it
\* returned no address
ResolutionTargets == {"std::vec::IntoIter<SocketAddr>", "SocketAddr"}
\* The text written is no tcp endpoint and names no host that resolves: the
\* name is unknown to the resolver, or carries the tcp: tag, or ends with a
\* colon, or the resolver fails on it or returns no address for it
Unresolvable ==
    \/ sock_origin.name = "unknown"
    \/ sock_origin.tag = "tcp:"
    \/ sock_origin.suffix = ":"
    \/ sock_origin.name \in DOMAIN resolver /\ ~NameKnown
\* The error that the parser without resolution returns for the same text
\* is none of the resolution errors
FormatErrorDiffers(r) ==
    is_err(r) /\ Unwrap(r.err).target \notin ResolutionTargets

\* C21: Tcp::from_host on a text that is no tcp endpoint and does not
\* resolve, with the port written or with the ":0" appended, fails with the
\* error of the resolution (about the text as written, its target the
\* resolver's address list or SocketAddr), which differs in its target from
\* the error that the Tcp parser without resolution returns for that text.
C21_ResolutionFailed ==
    sock_pc = "parsed" /\ sock_result.parser = "Tcp::from_host" /\ Unresolvable =>
        /\ is_err(sock_result.res)
        /\ Unwrap(sock_result.res.err).target \in ResolutionTargets
        /\ Unwrap(sock_result.res.err).value = sock_text
        /\ FormatErrorDiffers(Tcp_from_str(sock_text))

\* C21 witness: the name unknown did not resolve.
C21_Witness ==
    /\ sock_pc = "parsed" /\ sock_result.parser = "Tcp::from_host"
    /\ sock_text = "unknown:5555"
    /\ lookups = <<"unknown", "unknown:5555">>
    /\ is_err(sock_result.res)
    /\ Unwrap(sock_result.res.err).target = "std::vec::IntoIter<SocketAddr>"


\* AdbGlobalOption::from_host has run on a flag followed by a host name
\* for which the resolver returns at least one address
KnownHostResolved(flag, tag, suffix) ==
    /\ opt_pc = "parsed" /\ opt_result.parser = "from_host"
    /\ opt_origin.flag = flag /\ opt_origin.val.kind = "host"
    /\ opt_origin.val.tag = tag /\ opt_origin.val.suffix = suffix
    /\ opt_origin.val.name \in DOMAIN resolver
    /\ resolver[opt_origin.val.name].ok
    /\ resolver[opt_origin.val.name].addrs # << >>
\* The first IPv4 address, or else the first address, of the name written
PreferredOfName == Preferred(resolver[opt_origin.val.name].addrs)

\* C22: when the resolver returns addresses for the host name h,
\* AdbGlobalOption::from_host gives Host of the preferred address of h for
\* -H h, Listen of that address without a port for -L tcp:h and Listen of
\* that address and the port p for -L tcp:h:p, and the name handed to the
\* resolver is h, without the tcp: tag.
C22_ResolvingOptions ==
    /\ KnownHostResolved("-H", "", "") =>
           GaveOption("Host", PreferredOfName) /\ lookups = <<opt_origin.val.name>>
    /\ KnownHostResolved("-L", "tcp:", "") =>
           /\ GaveOption("Listen", Tcp_with_ip(PreferredOfName))
           /\ lookups = <<opt_origin.val.name>>
    /\ KnownHostResolved("-L", "tcp:", ":5555") =>
           /\ GaveOption("Listen", Tcp_new(PreferredOfName, 5555))
           /\ lookups = <<opt_origin.val.name>>

\* What from_host does with these three texts: the name handed to the
\* resolver begins with the tcp: tag, no such name resolves, and the parse
\* fails with the error of the resolution.
C22_TaggedNameLookedUp ==
    \/ KnownHostResolved("-H", "", "")
    \/ KnownHostResolved("-L", "tcp:", "")
    \/ KnownHostResolved("-L", "tcp:", ":5555")
    => /\ lookups # << >>
       /\ lookups[1] = "tcp:" \o opt_origin.val.name
       /\ FailedWith("std::vec::IntoIter<SocketAddr>", "")

\* -H localhost was rejected though the resolver knows localhost
C22_HostNameRejected ==
    /\ KnownHostResolved("-H", "", "")
    /\ opt_text = "-H localhost"
    /\ resolver["localhost"].addrs = <<Localhost4>>
    /\ lookups = <<"tcp:localhost">>
    /\ is_err(opt_result.res)


\* AdbGlobalOption::from_host has run on a text written by a caller
WrittenResolved ==
    opt_pc = "parsed" /\ opt_origin.form = "written" /\ opt_result.parser = "from_host"
\* from_host returned what the parse without resolution returns, r, and the
\* resolver was not asked
AgreesWith(r) ==
    is_ok(r) => SameOptionAs(r) /\ lookups = << >>
\* The value written after -H is an IPv6 address
HostIpv6Written ==
    /\ opt_origin.flag = "-H" /\ opt_origin.val.kind = "ip"
    /\ opt_origin.val.ip.v = 6

\* C23: for every text that the parse without resolution accepts,
\* AdbGlobalOption::from_host returns the same option and does not ask the
\* resolver; for every text whose flag is neither -H nor -L, the two return
\* the same result, option or error.
C23_FromHostAgrees ==
    WrittenResolved =>
        /\ AgreesWith(AdbGlobalOption_from_str(opt_text))
        /\ opt_origin.flag \notin {"-H", "-L"} =>
               opt_result.res = AdbGlobalOption_from_str(opt_text)

\* What from_host keeps of C23: it agrees with the parse without resolution
\* on every accepted text but -H followed by an IPv6 address, and on every
\* text whose flag is neither -H nor -L.
C23_AgreesButHostIpv6 ==
    WrittenResolved =>
        /\ ~HostIpv6Written => AgreesWith(AdbGlobalOption_from_str(opt_text))
        /\ opt_origin.flag \notin {"-H", "-L"} =>
               opt_result.res = AdbGlobalOption_from_str(opt_text)

\* -H ::1, which the parse without resolution accepts, was rejected by
\* from_host after it asked the resolver
C23_HostIpv6Rejected ==
    /\ WrittenResolved
    /\ opt_text = "-H ::1"
    /\ is_ok(AdbGlobalOption_from_str(opt_text))
    /\ is_err(opt_result.res)
    /\ lookups = <<"tcp::", "tcp:::1">>


\* The text v stands somewhere in the text s
IsPartOf(v, s) ==
    \E i \in 1..(Len(s) + 1) : \E j \in 0..Len(s) : SubSeq(s, i, j) = v

\* C24: every parse of a global option that fails returns an error whose
\* value is the text handed to the parser, whose target is named and whose
\* description is not empty.
C24_ErrorCarriesInput ==
    WrittenParsed /\ is_err(opt_result.res) =>
        /\ Unwrap(opt_result.res.err).value = opt_text
        /\ Unwrap(opt_result.res.err).target # ""
        /\ Unwrap(opt_result.res.err).description # ""

\* What the errors of a failed parse do carry: a target; a description or
\* else the error of the parser underneath as the source, never both; as
\* the value the words "no value" when the flag has no value, and else a
\* part of the text, the flag or the value or what follows tcp: in it.
C24_ErrorShape ==
    WrittenParsed /\ is_err(opt_result.res) =>
        /\ Unwrap(opt_result.res.err).target # ""
        /\ Unwrap(opt_result.res.err).description = ""
               <=> Unwrap(opt_result.res.err).source
        /\ IF Unwrap(opt_result.res.err).description = "missing value"
           THEN Unwrap(opt_result.res.err).value = "no value"
           ELSE IsPartOf(Unwrap(opt_result.res.err).value, opt_text)

\* The error of -P without a value has the value "no value", which is not
\* in the text
C24_NoValueInError ==
    /\ WrittenParsed
    /\ opt_text = " -P "
    /\ FailedWith("&str", "missing value")
    /\ Unwrap(opt_result.res.err).value = "no value"
    /\ ~IsPartOf("no value", opt_text)


\* C27: when a text parses to a global option, the text with one more "-"
\* before it does not parse: no flag is another flag with a dash before it,
\* and a dash before leading whitespace is an unknown flag of its own.
C27_ExtraDashFails ==
    opt_pc = "dashed" /\ is_ok(AdbGlobalOption_from_str(opt_text)) =>
        is_err(opt_result.res)

\* C27 witness: -s emulator-5554 parses, --s emulator-5554 was rejected as
\* an unknown option.
C27_Witness ==
    /\ opt_pc = "dashed"
    /\ opt_text = "-s emulator-5554"
    /\ is_ok(AdbGlobalOption_from_str(opt_text))
    /\ FailedWith("GlobalOption", "unknown option")
    /\ Unwrap(opt_result.res.err).value = "--s"


(***************************************************************************)
(* C28: the frame of a setter.                                             *)
(***************************************************************************)

\* The kind set by the call that the step appends to the chain
KindSet == KindOf(calls'[Len(calls')].method)

\* C28: a setter of kind K changes only the entry of kind K: every entry of
\* another kind that was in the set before the call is in it after the call,
\* with the same payload, and the call brings no entry of another kind.
C28_Frame ==
    [][\A kind \in Kinds \ {KindSet} :
           {o \in global_options' : o.kind = kind} = OfKind(kind)]_vars

\* C28 witness: with a Port entry in the set, the serial was set to A and then
\* to B: the set holds the Port entry as it was, and the serial B.
C28_Witness ==
    /\ Len(calls) = 3
    /\ calls[1] = [method |-> "serial", arg |-> "A"]
    /\ calls[2] = [method |-> "port", arg |-> 5037]
    /\ calls[3] = [method |-> "serial", arg |-> "B"]
    /\ global_options = {Option("Serial", "B"), Option("Port", 5037)}


(***************************************************************************)
(* Subcommands: an Adb instance hands out an AdbCommandBuilder, the global *)
(* option setters fill it, a subcommand constructor moves it into the      *)
(* subcommand's own builder, and build returns a std::process::Command.    *)
(***************************************************************************)

\* The calls made on one subcommand builder are at most this many
MaxSetters == 3

\* AdbEnv::NAME of the eight variables, in the order AdbEnvs::apply takes them
EnvNames ==
    <<"ADB_TRACE", "ADB_VENDOR_KEYS", "ANDROID_SERIAL", "ANDROID_LOG_TAGS",
      "ADB_LOCAL_TRANSPORT_MAX_PORT", "ADB_MDNS_AUTO_CONNECT", "ADB_MDNS_OPENSCREEN",
      "ADB_LIBUSB">>

\* [T]::join(sep) of the standard library
RECURSIVE join(_, _)
join(parts, sep) ==
    IF parts = << >> THEN ""
    ELSE IF Len(parts) = 1 THEN parts[1]
    ELSE parts[1] \o sep \o join(Tail(parts), sep)

\* Display of the eight AdbEnv types: var.to_string()
AdbEnv_display(name, var) ==
    CASE name = "ADB_TRACE" -> join(var, ",")
      [] name = "ADB_VENDOR_KEYS" -> join(var, ":")
      [] name = "ANDROID_SERIAL" -> var
      [] name = "ANDROID_LOG_TAGS" -> var
      [] name = "ADB_LOCAL_TRANSPORT_MAX_PORT" -> u16_display(var)
      [] name = "ADB_MDNS_AUTO_CONNECT" -> join(var, ",")
      [] name = "ADB_MDNS_OPENSCREEN" -> IF var THEN "1" ELSE "0"
      [] name = "ADB_LIBUSB" -> IF var THEN "1" ELSE "0"

\* AdbEnvs::default: every value None
AdbEnvs_default == [name \in {EnvNames[i] : i \in 1..Len(EnvNames)} |-> None]

\* The environment of a spawned process, per variable: inherited from the
\* parent unless the Command sets or removes it
Inherited == [env |-> "inherited"]

\* Command::new(program)
Command_new(program) ==
    [program |-> program, current_dir |-> None, args |-> << >>,
     envs |-> [name \in DOMAIN AdbEnvs_default |-> Inherited]]
\* Command::current_dir
Command_current_dir(c, dir) == [c EXCEPT !.current_dir = Some(dir)]
\* Command::arg
Command_arg(c, a) == [c EXCEPT !.args = Append(@, a)]
\* Command::args
Command_args(c, more) == [c EXCEPT !.args = @ \o more]
\* Command::env
Command_env(c, name, val) == [c EXCEPT !.envs[name] = [env |-> "set", val |-> val]]
\* Command::env_remove
Command_env_remove(c, name) == [c EXCEPT !.envs[name] = [env |-> "removed"]]

\* envs::_apply
apply_one(name, var, c) ==
    IF var # None THEN Command_env(c, name, AdbEnv_display(name, Unwrap(var)))
    ELSE Command_env_remove(c, name)

\* AdbEnvs::apply: the eight variables one after the other
RECURSIVE apply_from(_, _, _)
apply_from(envs, i, c) ==
    IF i > Len(EnvNames) THEN c
    ELSE apply_from(envs, i + 1, apply_one(EnvNames[i], envs[EnvNames[i]], c))
AdbEnvs_apply(envs, c) == apply_from(envs, 1, c)

\* Adb::default, and instances whose values Adb::new inherited from the
\* process or envs_mut set, without and with a working directory
AdbSamples ==
    {[working_directory |-> None, envs |-> AdbEnvs_default],
     [working_directory |-> None,
      envs |-> [AdbEnvs_default EXCEPT !["ANDROID_SERIAL"] = Some("A"),
                                       !["ADB_LOCAL_TRANSPORT_MAX_PORT"] = Some(5585),
                                       !["ADB_TRACE"] = Some(<<"adb", "usb">>)]],
     [working_directory |-> Some("/sdk"),
      envs |-> [AdbEnvs_default EXCEPT !["ADB_LIBUSB"] = Some(TRUE)]]}

\* AdbCommandBuilder::new
AdbCommandBuilder_new == [working_directory |-> None]
\* AdbCommandBuilder::with_working_directory
AdbCommandBuilder_with_working_directory(path) == [working_directory |-> Some(path)]

\* Adb::command.  It passes the instance to AdbCommandBuilder::new, which
\* takes no argument: the builders either constructor can make of the
\* instance, neither of which holds the instance's envs.
Adb_command(a) ==
    {AdbCommandBuilder_new}
        \cup (IF a.working_directory = None THEN {}
              ELSE {AdbCommandBuilder_with_working_directory(Unwrap(a.working_directory))})

\* The orders in which a HashSet can hand out its elements
Orders(S) ==
    {order \in [1..Cardinality(S) -> S] :
        \A i \in DOMAIN order : \A j \in DOMAIN order : i # j => order[i] # order[j]}

\* A build that leaves the global options out of the arguments
AdbCommandBuilder_build_bare(acb, order) ==
    IF acb.working_directory # None
    THEN Command_current_dir(Command_new("adb"), Unwrap(acb.working_directory))
    ELSE Command_new("adb")

\* AdbCommandBuilder::build, the set iterated in the given order: one
\* argument per global option, its Display text
AdbCommandBuilder_build(acb, order) ==
    LET new == Command_new("adb")
        placed == IF acb.working_directory # None
                  THEN Command_current_dir(new, Unwrap(acb.working_directory))
                  ELSE new
    IN Command_args(placed, [i \in DOMAIN order |-> AdbGlobalOption_display(order[i])])


\* AdbCompressionAlgorithm as AsRef<OsStr>: the algorithm by its name
AdbCompressionAlgorithm_as_ref(algorithm) == algorithm

\* impl AdbCommand for AdbConnect: build
AdbConnect_build(c, base) ==
    LET named == Command_arg(base, "connect")
    IN IF c.port # None
       THEN Command_arg(named, c.host \o ":" \o u16_display(Unwrap(c.port)))
       ELSE Command_arg(named, c.host)

\* impl AdbCommand for AdbDisconnect: build
AdbDisconnect_build(c, base) ==
    LET named == Command_arg(base, "disconnect")
    IN IF c.host # None
       THEN Command_arg(named,
                        IF c.port # None
                        THEN Unwrap(c.host) \o ":" \o u16_display(Unwrap(c.port))
                        ELSE Unwrap(c.host))
       ELSE named

\* impl AdbCommand for AdbPair: build
AdbPair_build(c, base) ==
    LET named == Command_arg(base, "pair")
        host_and_port == IF c.port # None
                         THEN c.host \o ":" \o u16_display(Unwrap(c.port))
                         ELSE c.host
        target == Command_arg(named, host_and_port)
    IN IF c.pairing_code # None THEN Command_arg(target, Unwrap(c.pairing_code))
       ELSE target

\* impl AdbCommand for AdbForwardNoRebind: build
AdbForwardNoRebind_build(c, base) ==
    LET named == Command_arg(base, "forward")
        flagged == IF c.no_rebind THEN Command_arg(named, "--no-rebind") ELSE named
    IN Command_arg(Command_arg(flagged, c.local), c.remote)

\* impl AdbCommand for AdbPush: build
AdbPush_build(c, base) ==
    LET named == Command_arg(base, "push")
        synced == IF c.sync THEN Command_arg(named, "--sync") ELSE named
        compressed == IF c.z # None
                      THEN Command_arg(Command_arg(synced, "-z"),
                                       AdbCompressionAlgorithm_as_ref(Unwrap(c.z)))
                      ELSE Command_arg(synced, "-Z")
    IN Command_arg(Command_args(compressed, c.local), c.remote)

\* AdbCommand::build of the subcommand the builder is of
AdbCommand_build(c, base) ==
    CASE c.command = "connect" -> AdbConnect_build(c, base)
      [] c.command = "disconnect" -> AdbDisconnect_build(c, base)
      [] c.command = "pair" -> AdbPair_build(c, base)
      [] c.command = "forward" -> AdbForwardNoRebind_build(c, base)
      [] c.command = "push" -> AdbPush_build(c, base)

Subcommands == {"connect", "disconnect", "pair", "forward", "push"}

\* What the callers of the model pass
CommandHosts == {"localhost", "device"}
CommandPorts == {5555, 1234}
PairingCodes == {"123456"}
ForwardSockets == {"tcp:8080", "tcp:0"}
PushLocals == {<<"a.txt">>, <<"a.txt", "b.txt">>}
PushRemotes == {"/sdcard"}
Algorithms == {"lz4", "any"}

\* The global option setters chained on the builder before the subcommand
BuilderChains ==
    {<< >>,
     <<[method |-> "serial", arg |-> "A"], [method |-> "usb", arg |-> << >>]>>,
     <<[method |-> "port", arg |-> 5037], [method |-> "serial", arg |-> "B"],
       [method |-> "listen", arg |-> Tcp_with_port(5037)]>>}

\* One setter call applied to the builder's set
set_global_option(options, call) ==
    IF call.method \in {"listen_all", "usb", "tcp_ip", "exit_on_write_error"}
    THEN add_global_option_unchecked(options, Flag(KindOf(call.method)))
    ELSE add_global_option(options, Option(KindOf(call.method), call.arg), call.method)

\* The builder's set after a chain of setter calls on an empty builder
RECURSIVE after_calls(_)
after_calls(made) ==
    IF made = << >> THEN {}
    ELSE set_global_option(after_calls(SubSeq(made, 1, Len(made) - 1)), made[Len(made)])

\* adb.command() and the global option setters chained on it: the builder a
\* subcommand constructor is called on
CommandInit ==
    /\ SocketIdle /\ OptionIdle /\ resolver = NoResolver /\ lookups = << >>
    /\ adb \in AdbSamples
    /\ calls \in BuilderChains
    /\ global_options = after_calls(calls)
    /\ \E acb \in Adb_command(adb) :
           command = [command |-> "acb", working_directory |-> acb.working_directory]
    /\ chain = << >>
    /\ cmd = NoCommand

\* A subcommand constructor moves the AdbCommandBuilder into the new builder
Constructed(fields) ==
    /\ command' = fields @@ [working_directory |-> command.working_directory]
    /\ UNCHANGED <<adb, chain, cmd, builderVars, socketVars, optionVars, resolverVars>>

\* A setter of a subcommand builder consumes the builder and returns it
Set(method, given, fields) ==
    /\ cmd = NoCommand
    /\ Len(chain) < MaxSetters
    /\ command' = fields @@ command
    /\ chain' = Append(chain, [method |-> method, arg |-> given])
    /\ UNCHANGED <<adb, cmd, builderVars, socketVars, optionVars, resolverVars>>

\* AdbCommandBuilder::connect -> AdbConnect::new
AdbConnect_new ==
    /\ command.command = "acb"
    /\ \E h \in CommandHosts :
           Constructed([command |-> "connect", host |-> h, port |-> None])
AdbConnect_host ==
    /\ command.command = "connect"
    /\ \E h \in CommandHosts : Set("host", h, [host |-> h])
AdbConnect_port ==
    /\ command.command = "connect"
    /\ \E p \in CommandPorts : Set("port", p, [port |-> Some(p)])

\* AdbCommandBuilder::disconnect -> AdbDisconnect::new
AdbDisconnect_new ==
    /\ command.command = "acb"
    /\ Constructed([command |-> "disconnect", host |-> None, port |-> None])
AdbDisconnect_host ==
    /\ command.command = "disconnect"
    /\ \E h \in CommandHosts : Set("host", h, [host |-> Some(h)])
AdbDisconnect_port ==
    /\ command.command = "disconnect"
    /\ \E p \in CommandPorts : Set("port", p, [port |-> Some(p)])

\* AdbCommandBuilder::pair -> AdbPair::new
AdbPair_new ==
    /\ command.command = "acb"
    /\ \E h \in CommandHosts :
           Constructed([command |-> "pair", host |-> h, port |-> None,
                        pairing_code |-> None])
AdbPair_host ==
    /\ command.command = "pair"
    /\ \E h \in CommandHosts : Set("host", h, [host |-> h])
AdbPair_port ==
    /\ command.command = "pair"
    /\ \E p \in CommandPorts : Set("port", p, [port |-> Some(p)])
AdbPair_pairing_code ==
    /\ command.command = "pair"
    /\ \E code \in PairingCodes :
           Set("pairing_code", code, [pairing_code |-> Some(code)])

\* AdbForward::arg -> AdbForwardNoRebind::new
AdbForward_arg ==
    /\ command.command = "acb"
    /\ \E l \in ForwardSockets : \E r \in ForwardSockets :
           Constructed([command |-> "forward", no_rebind |-> FALSE, local |-> l,
                        remote |-> r])
\* AdbForward::no_rebind -> AdbForwardNoRebind::new(..).no_rebind()
AdbForward_no_rebind ==
    /\ command.command = "acb"
    /\ \E l \in ForwardSockets : \E r \in ForwardSockets :
           Constructed([command |-> "forward", no_rebind |-> TRUE, local |-> l,
                        remote |-> r])
AdbForwardNoRebind_local ==
    /\ command.command = "forward"
    /\ \E l \in ForwardSockets : Set("local", l, [local |-> l])
AdbForwardNoRebind_remote ==
    /\ command.command = "forward"
    /\ \E r \in ForwardSockets : Set("remote", r, [remote |-> r])
AdbForwardNoRebind_no_rebind ==
    /\ command.command = "forward"
    /\ Set("no_rebind", << >>, [no_rebind |-> TRUE])

\* AdbCommandBuilder::push -> AdbPush::new
AdbPush_new ==
    /\ command.command = "acb"
    /\ \E l \in PushLocals : \E r \in PushRemotes :
           Constructed([command |-> "push", sync |-> FALSE, n |-> FALSE, z |-> None,
                        local |-> l, remote |-> r])
AdbPush_sync ==
    /\ command.command = "push"
    /\ Set("sync", << >>, [sync |-> TRUE])
AdbPush_n ==
    /\ command.command = "push"
    /\ Set("n", << >>, [n |-> TRUE])
AdbPush_z ==
    /\ command.command = "push"
    /\ \E algorithm \in Algorithms : Set("z", algorithm, [z |-> Some(algorithm)])
AdbPush_Z ==
    /\ command.command = "push"
    /\ Set("Z", << >>, [z |-> None])
AdbPush_local ==
    /\ command.command = "push"
    /\ \E l \in PushLocals : Set("local", l, [local |-> l])
AdbPush_remote ==
    /\ command.command = "push"
    /\ \E r \in PushRemotes : Set("remote", r, [remote |-> r])

\* AdbCommand::build: the builder's own build on what AdbCommandBuilder::build
\* returns.  The builder is consumed; the model keeps its fields beside the
\* Command for the properties to read.
build ==
    /\ command.command \in Subcommands
    /\ cmd = NoCommand
    /\ \E order \in Orders(global_options) :
           cmd' = AdbCommand_build(command, AdbCommandBuilder_build(command, order))
    /\ UNCHANGED <<adb, command, chain, builderVars, socketVars, optionVars, resolverVars>>

CommandNext ==
    \/ AdbConnect_new \/ AdbConnect_host \/ AdbConnect_port
    \/ AdbDisconnect_new \/ AdbDisconnect_host \/ AdbDisconnect_port
    \/ AdbPair_new \/ AdbPair_host \/ AdbPair_port \/ AdbPair_pairing_code
    \/ AdbForward_arg \/ AdbForward_no_rebind \/ AdbForwardNoRebind_local
    \/ AdbForwardNoRebind_remote \/ AdbForwardNoRebind_no_rebind
    \/ AdbPush_new \/ AdbPush_sync \/ AdbPush_n \/ AdbPush_z \/ AdbPush_Z
    \/ AdbPush_local \/ AdbPush_remote
    \/ build

SpecCommand == CommandInit /\ [][CommandNext]_vars

\* A Command has been built
Built == cmd # NoCommand


(***************************************************************************)
(* C25: the place of the global options in the arguments.                  *)
(***************************************************************************)

\* The name of the subcommand a builder is of
SubcommandName(c) ==
    CASE c.command = "connect" -> "connect"
      [] c.command = "disconnect" -> "disconnect"
      [] c.command = "pair" -> "pair"
      [] c.command = "forward" -> "forward"
      [] c.command = "push" -> "push"

\* The flags of the subcommands, and the positional arguments the builder holds
SpecificArgs(c) ==
    {"--no-rebind", "--sync", "-n", "-z", "-Z"}
        \cup Algorithms
        \cup (IF c.command \in {"connect", "pair"} THEN {c.host} ELSE {})
        \cup (IF c.command = "disconnect" /\ c.host # None THEN {Unwrap(c.host)} ELSE {})
        \cup (IF c.command \in {"forward", "push"} THEN {c.remote} ELSE {})
        \cup (IF c.command = "forward" THEN {c.local} ELSE {})
        \cup (IF c.command = "push" THEN {c.local[i] : i \in DOMAIN c.local} ELSE {})

\* The texts of the global options in the builder's set
Rendered == {AdbGlobalOption_display(o) : o \in global_options}

\* C25: in the arguments of every built command the global options of the
\* builder's set come first, each as its Display text, then the name of the
\* subcommand, and only after the name the flags and positional arguments of
\* the subcommand.
C25_GlobalOptionsFirst ==
    Built =>
        LET n == Cardinality(global_options)
        IN /\ Len(cmd.args) > n
           /\ {cmd.args[i] : i \in 1..n} = Rendered
           /\ cmd.args[n + 1] = SubcommandName(command)
           /\ \A i \in (n + 2)..Len(cmd.args) : cmd.args[i] \notin Rendered
           /\ \A i \in 1..(n + 1) : cmd.args[i] \notin SpecificArgs(command)

\* C25 witness: forward with --no-rebind built on a builder of three global
\* options: three texts, the name, the flag and the two sockets.
C25_Witness ==
    /\ Built
    /\ Rendered = {"-P 5037", "-s B", "-L tcp:5037"}
    /\ command.command = "forward"
    /\ SubSeq(cmd.args, 4, 5) = <<"forward", "--no-rebind">>
    /\ Len(cmd.args) = 7


(***************************************************************************)
(* C26: the environment of a built command.                                *)
(***************************************************************************)

\* C26: every command built from an Adb instance carries the instance's
\* stored adb environment values: each of the eight variables is set to the
\* text of the stored value when there is one, and removed when there is
\* none.
C26_EnvsApplied ==
    Built => cmd.envs = AdbEnvs_apply(adb.envs, cmd).envs

\* What holds of the code: no build touches the environment of the Command,
\* so the child inherits the eight variables from the process, whatever the
\* instance stores.
C26_EnvsInherited ==
    Built => \A i \in DOMAIN EnvNames : cmd.envs[EnvNames[i]] = Inherited

\* A command built from an instance that stores a serial and no ADB_LIBUSB:
\* AdbEnvs::apply would set the one and remove the other, the built command
\* does neither.
C26_StoredButInherited ==
    /\ Built
    /\ adb.envs["ANDROID_SERIAL"] = Some("A")
    /\ adb.envs["ADB_LIBUSB"] = None
    /\ AdbEnvs_apply(adb.envs, cmd).envs["ANDROID_SERIAL"] = [env |-> "set", val |-> "A"]
    /\ AdbEnvs_apply(adb.envs, cmd).envs["ADB_LIBUSB"] = [env |-> "removed"]
    /\ AdbEnvs_apply(adb.envs, cmd).envs["ADB_TRACE"] = [env |-> "set", val |-> "adb,usb"]
    /\ AdbEnvs_apply(adb.envs, cmd).envs["ADB_LOCAL_TRANSPORT_MAX_PORT"]
           = [env |-> "set", val |-> "5585"]
    /\ cmd.envs["ANDROID_SERIAL"] = Inherited
    /\ cmd.envs["ADB_LIBUSB"] = Inherited


(***************************************************************************)
(* C29: the flags of push.                                                 *)
(***************************************************************************)

\* The method was called on the subcommand's builder
Called(method) == \E i \in DOMAIN chain : chain[i].method = method
\* The built command has the argument
HasArg(a) == \E i \in DOMAIN cmd.args : cmd.args[i] = a
\* The built command has -z followed by the algorithm
HasCompression(algorithm) ==
    \E i \in DOMAIN cmd.args :
        /\ i < Len(cmd.args)
        /\ cmd.args[i] = "-z"
        /\ cmd.args[i + 1] = algorithm
\* The calls of z and Z in the chain
CompressionCalls == {i \in DOMAIN chain : chain[i].method \in {"z", "Z"}}

\* Exactly one of -z ALGORITHM and -Z is present, as the last of z() and Z()
\* chose it
CompressionAsCalledLast ==
    /\ HasArg("-Z") # (\E algorithm \in Algorithms : HasCompression(algorithm))
    /\ HasArg("-Z") # HasArg("-z")
    /\ CompressionCalls # {} =>
           LET latest == chain[CHOOSE i \in CompressionCalls :
                                   \A j \in CompressionCalls : j <= i]
           IN IF latest.method = "z" THEN HasCompression(latest.arg) ELSE HasArg("-Z")

BuiltPush == Built /\ command.command = "push"

\* C29: each flag setter of the push builder shows in the built arguments:
\* after n() they contain -n, after sync() they contain --sync, and exactly
\* one of -z ALGORITHM and -Z is present, chosen by the last of z() and Z().
C29_PushFlags ==
    BuiltPush =>
        /\ Called("n") => HasArg("-n")
        /\ Called("sync") => HasArg("--sync")
        /\ CompressionAsCalledLast

\* What holds of the code: --sync and the compression flag are as the claim
\* says, and -n is in no built push, whether n() was called or not.
C29_PushFlagsButDryRun ==
    BuiltPush =>
        /\ ~HasArg("-n")
        /\ Called("sync") <=> HasArg("--sync")
        /\ CompressionAsCalledLast

\* sync(), Z() and then z(any): the arguments have --sync and -z any, no -Z.
C29_Witness ==
    /\ BuiltPush
    /\ Len(chain) = 3
    /\ chain[1].method = "sync" /\ chain[2].method = "Z"
    /\ chain[3] = [method |-> "z", arg |-> "any"]
    /\ \E i \in DOMAIN cmd.args : SubSeq(cmd.args, i, i + 2) = <<"push", "--sync", "-z">>
    /\ HasCompression("any")
    /\ ~HasArg("-Z")

\* n() alone on push of a.txt to /sdcard: the command is push -Z a.txt /sdcard
C29_DryRunDropped ==
    /\ BuiltPush
    /\ global_options = {}
    /\ chain = <<[method |-> "n", arg |-> << >>]>>
    /\ command.n
    /\ cmd.args = <<"push", "-Z", "a.txt", "/sdcard">>


(***************************************************************************)
(* C30: the port of connect, pair and disconnect.                          *)
(***************************************************************************)

\* The port given by the last call of port() on the subcommand's builder
PortCalls == {i \in DOMAIN chain : chain[i].method = "port"}
LastPort == chain[CHOOSE i \in PortCalls : \A j \in PortCalls : j <= i].arg

\* The argument is HOST:p for some host and the port p
IsTarget(a, p) == \E h \in CommandHosts : a = h \o ":" \o u16_display(p)

BuiltNetworking == Built /\ command.command \in {"connect", "pair", "disconnect"}

\* C30: a port set on connect, pair or disconnect is never dropped: once
\* port(p) has been called, the built command has a target argument HOST:p;
\* a disconnect builder with a port and no host does not build the bare
\* disconnect command.
C30_PortKept ==
    BuiltNetworking /\ PortCalls # {} =>
        \E i \in DOMAIN cmd.args : IsTarget(cmd.args[i], LastPort)

\* What holds of the code: connect and pair keep the port, and so does
\* disconnect once host() has been called.
C30_PortKeptWithHost ==
    BuiltNetworking /\ PortCalls # {}
        /\ (command.command = "disconnect" => Called("host")) =>
        \E i \in DOMAIN cmd.args :
            /\ IsTarget(cmd.args[i], LastPort)
            /\ i = Len(cmd.args) \/ command.command = "pair"

\* connect to localhost with port 1234 and then port 5555: the target is
\* localhost:5555.
C30_Witness ==
    /\ BuiltNetworking
    /\ command.command = "connect"
    /\ chain = <<[method |-> "port", arg |-> 1234], [method |-> "port", arg |-> 5555]>>
    /\ cmd.args[Len(cmd.args)] = "localhost:5555"

\* disconnect with port 5555 and no host: the bare disconnect command
C30_PortDropped ==
    /\ BuiltNetworking
    /\ command.command = "disconnect"
    /\ global_options = {}
    /\ chain = <<[method |-> "port", arg |-> 5555]>>
    /\ command.port = Some(5555)
    /\ cmd.args = <<"disconnect">>

=============================================================================
